---- MODULE Spec2Model ----
(***************************************************************************)
(* Submission orchestrator of the shuttlings validators (cch23 and cch24): *)
(* run() races validate() against a 60 second timer and reports progress   *)
(* over a bounded mpsc channel.  The validation scripts are modelled as    *)
(* tables of their operations, taken line by line from the sources.        *)
(***************************************************************************)
EXTENDS Integers, Sequences, FiniteSets, TLC

\* Capacity of the progress channel handed to run().  run() accepts any
\* Sender; the command line front end creates it with capacity 32.
ChanCap == 2

\* Workers of the concurrent section of cch23 validate_19 (the source
\* starts 20) and phrases each of them sends (the source has 200).
NumWorkers == 2
NumPhrases == 2

\* Longest stream of incoming frames given to a harness that is exercised
\* on its own (WsSpec).
MaxFrames == 2

\* Largest number of deviations of the server under test (RoomSpec).
MaxFaults == 2

\* ------------------------------------------------------------------------
\* Progress events (shuttlings::SubmissionUpdate)
\* ------------------------------------------------------------------------
SubmissionState == {"Waiting", "Running", "Done", "Error"}

StateEv(s) ==
  [type |-> "State", state |-> s, final |-> FALSE, bonus |-> 0, text |-> ""]
TaskCompletedEv(f, b) ==
  [type |-> "TaskCompleted", state |-> "", final |-> f, bonus |-> b, text |-> ""]
LogLineEv(t) ==
  [type |-> "LogLine", state |-> "", final |-> FALSE, bonus |-> 0, text |-> t]
SaveEv ==
  [type |-> "Save", state |-> "", final |-> FALSE, bonus |-> 0, text |-> ""]

\* ------------------------------------------------------------------------
\* Challenge registries and log texts
\* ------------------------------------------------------------------------
Validators == {"cch23", "cch24"}

SUPPORTED_CHALLENGES_23 ==
  {-1, 1, 4, 5, 6, 7, 8, 11, 12, 13, 14, 15, 18, 19, 20, 21, 22}
SUPPORTED_CHALLENGES_24 == {"-1", "2", "5", "9", "12", "16", "19", "23"}

\* format!("{number}") of an i32 (cch23) or of the &str itself (cch24)
NumberText(v, n) == IF v = "cch23" THEN ToString(n) ELSE n

UnsupportedText(v, n) ==
  "Validating Challenge " \o NumberText(v, n)
    \o " is not supported yet! Check for updates."
\* the source appends a red square emoji after "failed"
FailedText(tt) ==
  "Task " \o ToString(tt[1]) \o ": test #" \o ToString(tt[2]) \o " failed"
TimedOutText == "Timed out"
LatencyText ==
  "Info: High network latency detected. This test is timing-sensitive and might therefore fail."

\* ------------------------------------------------------------------------
\* Validation scripts as operation tables.
\*   St(a, b)  test = (a, b);
\*   Io        an awaited request or body read, `.await.map_err(|_| test)?`
\*   Ck        a comparison, `if ... { return Err(test); }` (assert_* macros)
\*   Sl        sleep(..).await
\*   Lg        `if end - start > 500ms` guarding the next operation
\*   Ls        tx.send(LogLine(latency warning)).await
\*   Tc(f, b)  tx.send((f, b).into()).await      (TaskCompleted)
\*   Sv        tx.send(SubmissionUpdate::Save).await
\* ------------------------------------------------------------------------
Op(k, a, b, f) == [k |-> k, a |-> a, b |-> b, f |-> f]
St(a, b) == Op("St", a, b, FALSE)
Io == Op("Io", 0, 0, FALSE)
Ck == Op("Ck", 0, 0, FALSE)
Sl == Op("Sl", 0, 0, FALSE)
Lg == Op("Lg", 0, 0, FALSE)
Ls == Op("Ls", 0, 0, FALSE)
Tc(f, b) == Op("Tc", 0, b, f)
Sv == Op("Sv", 0, 0, FALSE)

\* cch23 validate_minus1, lines 106-131 (9 operations)
S23_minus1 ==
  << St(1, 1), Io, Ck, Tc(TRUE, 0), Sv, St(2, 1), Io, Ck,
     Tc(FALSE, 0) >>

\* variant of validate_1 without the Save after the first TaskCompleted
S23_1_NoInnerSave ==
  << St(1, 1), Io, Io, Ck, St(1, 2), Io, Io, Ck,
     Tc(TRUE, 0), St(2, 1), Io, Io, Ck, St(2, 2), Io,
     Io, Ck, St(2, 3), Io, Io, Ck, St(2, 4), Io,
     Io, Ck, Tc(FALSE, 100) >>

\* cch23 validate_1, lines 133-187 (27 operations)
S23_1 ==
  << St(1, 1), Io, Io, Ck, St(1, 2), Io, Io, Ck,
     Tc(TRUE, 0), Sv, St(2, 1), Io, Io, Ck, St(2, 2), Io,
     Io, Ck, St(2, 3), Io, Io, Ck, St(2, 4), Io,
     Io, Ck, Tc(FALSE, 100) >>

\* variant of validate_13 that reports task 2 before test (2, 2)
S23_13_EarlyTc ==
  << St(1, 1), Io, Io, Ck, Tc(FALSE, 0), Sv, St(2, 1), Io,
     Ck, Io, Ck, Io, Io, Ck, Tc(TRUE, 0), Sv, St(2, 2), Io,
     Ck, Io, Io, Ck, St(3, 1), Io,
     Ck, Io, Io, Ck, St(3, 2), Io, Ck, Io,
     Io, Ck, Tc(FALSE, 100) >>

\* cch23 validate_13, lines 1050-1201 (35 operations)
S23_13 ==
  << St(1, 1), Io, Io, Ck, Tc(FALSE, 0), Sv, St(2, 1), Io,
     Ck, Io, Ck, Io, Io, Ck, St(2, 2), Io,
     Ck, Io, Io, Ck, Tc(TRUE, 0), Sv, St(3, 1), Io,
     Ck, Io, Io, Ck, St(3, 2), Io, Ck, Io,
     Io, Ck, Tc(FALSE, 100) >>

\* cch24 validate_minus1, lines 154-191 (12 operations)
S24_minus1 ==
  << St(1, 1), Io, Ck, Io, Ck, Tc(TRUE, 0), Sv, St(2, 1),
     Io, Ck, Ck, Tc(FALSE, 0) >>

\* variant of validate_2 that marks the bonus task as the final one
S24_2_FinalOnBonus ==
  << St(1, 1), Io, Io, Ck, St(1, 2), Io, Io, Ck,
     St(1, 3), Io, Io, Ck, Tc(FALSE, 0), Sv, St(2, 1), Io,
     Io, Ck, St(2, 2), Io, Io, Ck, St(2, 3), Io,
     Io, Ck, Tc(FALSE, 0), Sv, St(3, 1), Io, Io, Ck,
     St(3, 2), Io, Io, Ck, St(3, 3), Io, Io, Ck,
     St(3, 4), Io, Io, Ck, St(3, 5), Io, Io, Ck,
     St(3, 6), Io, Io, Ck, Tc(TRUE, 50), Sv >>

\* cch24 validate_2, lines 193-272 (54 operations)
S24_2 ==
  << St(1, 1), Io, Io, Ck, St(1, 2), Io, Io, Ck,
     St(1, 3), Io, Io, Ck, Tc(FALSE, 0), Sv, St(2, 1), Io,
     Io, Ck, St(2, 2), Io, Io, Ck, St(2, 3), Io,
     Io, Ck, Tc(TRUE, 0), Sv, St(3, 1), Io, Io, Ck,
     St(3, 2), Io, Io, Ck, St(3, 3), Io, Io, Ck,
     St(3, 4), Io, Io, Ck, St(3, 5), Io, Io, Ck,
     St(3, 6), Io, Io, Ck, Tc(FALSE, 50), Sv >>

\* cch24 validate_9, lines 763-1079 (201 operations)
S24_9 ==
  << St(1, 1), Io, Ck, Io, Ck, Io, Ck, Io,
     Ck, Io, Ck, Io, Ck, Io, Ck, Io,
     Ck, Io, Ck, Io, Ck, Lg, Ls, Io,
     Ck, Io, Ck, Sl, Io, Ck, Io, Ck,
     Io, Ck, Io, Ck, Sl, Io, Ck, Io,
     Ck, Io, Ck, Io, Ck, Io, Ck, Io,
     Ck, Io, Ck, Io, Ck, Tc(FALSE, 0), Sv, Sl,
     St(2, 1), Io, Ck, Io, Ck, St(2, 2), Io, Ck,
     Io, Ck, St(2, 3), Io, Ck, Io, Ck, St(2, 4),
     Io, Ck, St(2, 5), Io, Ck, St(2, 6), Io, Ck,
     Io, Ck, St(2, 7), Sl, Io, Ck, St(2, 8), Sl,
     Io, Ck, St(2, 9), Sl, Io, Ck, St(2, 10), Sl,
     Io, Ck, Io, Ck, St(2, 11), Sl, Io, Ck,
     Io, Ck, Tc(FALSE, 0), Sv, Sl, St(3, 1), Io, Ck,
     Io, Ck, St(3, 2), Io, Ck, Io, Ck, St(3, 3),
     Io, Ck, Io, Ck, St(3, 4), Io, Ck, St(3, 5),
     Io, Ck, St(3, 6), Sl, Io, Ck, St(3, 7), Io,
     Ck, Io, Ck, Tc(TRUE, 0), Sv, St(4, 1), Io, Ck,
     St(4, 2), Io, Ck, Io, Ck, Io, Ck, Io,
     Ck, Io, Ck, Io, Ck, Io, Ck, Io,
     Ck, Io, Ck, Io, Ck, Io, Ck, Io,
     Ck, Io, Ck, Io, Ck, Io, Ck, Io,
     Ck, Io, Ck, Io, Ck, Io, Ck, Io,
     Ck, Io, Ck, Io, Ck, Io, Ck, Io,
     Ck, Io, Ck, Io, Ck, Io, Ck, Tc(FALSE, 75),
     Sv >>

\* ------------------------------------------------------------------------
\* Texts, JSON and WebSocket frames (the WS harness, cch23 lines 1796-1856)
\* ------------------------------------------------------------------------
\* A text is its content and the way it is written down: a JSON document
\* can be written compactly or with extra white space, other texts are
\* plain.  serde_json::to_string writes compactly.
\* json!({"user": u, "message": m}) and json!({"message": m})
UserMessage(u, m) == [user |-> u, message |-> m]
Tweet(m) == [user |-> "", message |-> m]
Text(c, fmt) == [c |-> c, fmt |-> fmt]
Plain(s) == Text(Tweet(s), "plain")
to_string(v) == Text(v, "compact")
Spaced(v) == Text(v, "spaced")
\* serde_json::from_str::<Value>(&text): the value, whatever the white
\* space; an error for a text that is not a JSON document
from_str(t) ==
  IF t.fmt \in {"compact", "spaced"} THEN [ok |-> TRUE, v |-> t.c]
                                     ELSE [ok |-> FALSE, v |-> Tweet("")]

\* What `self.r.next().await` can yield: Some(Ok(Message::..)),
\* Some(Err(_)) or None
TextFrame(t) == [kind |-> "Text", text |-> t]
OtherFrame(k) == [kind |-> k, text |-> Plain("")]
NonTextFrames ==
  {OtherFrame(k) : k \in {"Binary", "Ping", "Pong", "Close", "Error", "End"}}

\* variant: a binary frame is taken for a text
WS_recv_BinaryAsText(item, t) ==
  IF item.kind \in {"Text", "Binary"}
  THEN [st |-> "Ok", text |-> item.text, tt |-> <<0, 0>>]
  ELSE [st |-> "Err", text |-> Plain(""), tt |-> t]

\* WS::recv, lines 1824-1830
WS_recv(item, t) ==
  IF item.kind = "Text" THEN [st |-> "Ok", text |-> item.text, tt |-> <<0, 0>>]
                        ELSE [st |-> "Err", text |-> Plain(""), tt |-> t]

\* WS::recv_str, lines 1832-1839
WS_recv_str(item, exp, t) ==
  LET r == WS_recv(item, t)
  IN IF r.st = "Err" THEN [st |-> "Err", tt |-> r.tt]
     ELSE IF r.text /= exp THEN [st |-> "Err", tt |-> t]
     ELSE [st |-> "Ok", tt |-> <<0, 0>>]

\* variant: the text itself is compared with the expected document
WS_recv_json_RawText(item, exp, t) ==
  LET r == WS_recv(item, t)
  IN IF r.st = "Err" THEN [st |-> "Err", tt |-> r.tt]
     ELSE IF r.text /= to_string(exp) THEN [st |-> "Err", tt |-> t]
     ELSE [st |-> "Ok", tt |-> <<0, 0>>]

\* WS::recv_json, lines 1841-1849
WS_recv_json(item, exp, t) ==
  LET r == WS_recv(item, t)
  IN IF r.st = "Err" THEN [st |-> "Err", tt |-> r.tt]
     ELSE IF ~from_str(r.text).ok THEN [st |-> "Err", tt |-> t]
     ELSE IF from_str(r.text).v /= exp THEN [st |-> "Err", tt |-> t]
     ELSE [st |-> "Ok", tt |-> <<0, 0>>]

\* ------------------------------------------------------------------------
\* Operations of a script on WS harnesses and on the JoinSet
\*   Ex          base_url.strip_prefix("http").expect(..)
\*   Wn(h)       let mut h = WS::new(test, url).await?;
\*   Wt(h)       h.test = test;
\*   Ws(h, m)    h.send(m).await?;
\*   Wm(h, m)    h.send_tweet(m).await?;
\*   Wr(h, e)    h.recv_str(e).await?;
\*   Wj(h, u, m) h.recv_json(&json!({"user": u, "message": m})).await?;
\*   Wx(h)       select! { _ = h.recv() => return Err(test), _ = sleep => () }
\*   Wc(h)       h.close().await?;
\*   Sp(i)       joins.spawn(t) for the i-th worker
\*   Jn          while let Some(Ok(r)) = joins.join_next().await { r?; }
\* ------------------------------------------------------------------------
WOp(k, h, m, e) ==
  [k |-> k, a |-> 0, b |-> 0, f |-> FALSE, h |-> h, m |-> m, e |-> e]
Ex == WOp("Ex", "", Plain(""), Plain(""))
Wn(h) == WOp("Wn", h, Plain(""), Plain(""))
Wt(h) == WOp("Wt", h, Plain(""), Plain(""))
Ws(h, m) == WOp("Ws", h, Plain(m), Plain(""))
Wm(h, m) == WOp("Ws", h, to_string(Tweet(m)), Plain(""))
Wr(h, e) == WOp("Wr", h, Plain(""), Plain(e))
Wj(h, u, m) == WOp("Wj", h, Plain(""), to_string(UserMessage(u, m)))
Wx(h) == WOp("Wx", h, Plain(""), Plain(""))
Wc(h) == WOp("Wc", h, Plain(""), Plain(""))
Sp(i) == [WOp("Sp", "", Plain(""), Plain("")) EXCEPT !.a = i]
Jn == WOp("Jn", "", Plain(""), Plain(""))

\* reset() and ensure_views(v) of validate_19, lines 1907-1924, each with
\* `.await.map_err(|_| test)?`: awaited requests and a comparison
Reset == << Io, Ck >>
EnsureViews == << Io, Io, Ck >>

\* the harness of the i-th worker (`user`, room 1, user i)
Workers == 0..(NumWorkers - 1)
UserName(i) == "user" \o ToString(i)
WsNames == {"ws", "elon", "a1", "b1", "b2", "a2"} \cup {UserName(i) : i \in Workers}

\* cch23 validate_19, lines 1858-2281
S23_19_Task1 ==
  << Ex,
     St(1, 1), Wn("ws"), Ws("ws", "ping"), Wx("ws"), Ws("ws", "serve"),
     Ws("ws", "ping"), Wr("ws", "pong"),
     St(1, 2), Wt("ws"), Ws("ws", "ding"), Wx("ws"),
     St(1, 3), Wt("ws"), Ws("ws", "ping"), Ws("ws", "ping"),
     Wr("ws", "pong"), Wr("ws", "pong"), Wx("ws"), Wc("ws"),
     Tc(TRUE, 0), Sv >>

S23_19_Tweets ==
  << St(2, 1) >> \o Reset \o EnsureViews \o
  << St(2, 2), Wn("elon"), Wm("elon", "s"),
     Wj("elon", "elonmusk", "s") >> \o EnsureViews \o
  << St(2, 3), Wm("elon", "s_long"), Wx("elon") >> \o EnsureViews \o
  << Wc("elon"), Sl >>

S23_19_Rooms ==
  << St(2, 4) >> \o Reset \o EnsureViews \o
  << Wn("a1"), Wn("b1"), Wn("b2"), Wn("a2"),
     Wm("a1", "l1"), Sl, Wm("a2", "l2"), Sl, Wm("a1", "l3"), Sl,
     Wm("b1", "x1"), Sl, Wm("a2", "l4"), Sl, Wm("a1", "l5"), Sl,
     Wj("a1", "annifrid", "l1"), Wj("a2", "annifrid", "l1"),
     Wj("a1", "agnetha", "l2"), Wj("a2", "agnetha", "l2"),
     Wj("a1", "annifrid", "l3"), Wj("a2", "annifrid", "l3"),
     Wj("a1", "agnetha", "l4"), Wj("a2", "agnetha", "l4"),
     Wj("a1", "annifrid", "l5"), Wj("a2", "annifrid", "l5"),
     Sl >> \o EnsureViews \o
  << St(2, 5), Wc("a1"), Wm("a2", "l6"), Wj("a2", "agnetha", "l6"),
     Sl >> \o EnsureViews \o
  << St(2, 6), Wn("a1"), Wx("a1"),
     Wj("b1", "bjorn", "x1"), Wj("b2", "bjorn", "x1"),
     Wm("a1", "x2"), Sl, Wc("b1"), Wm("a1", "x2"),
     Wj("b2", "annifrid", "x2"), Wj("b2", "annifrid", "x2"),
     Wj("a1", "annifrid", "x2"), Wj("a1", "annifrid", "x2"),
     Sl >> \o EnsureViews

\* variant: the completions are awaited before the last worker is spawned
S23_19_Workers_JoinEarly ==
  << St(2, 7) >> \o Reset \o EnsureViews \o
  [i \in 1..NumWorkers |-> Wn(UserName(i - 1))] \o
  [i \in 1..(NumWorkers - 1) |-> Sp(i - 1)] \o
  << Jn, Sp(NumWorkers - 1), Sl >> \o EnsureViews \o
  << Tc(FALSE, 500) >>

S23_19_Workers ==
  << St(2, 7) >> \o Reset \o EnsureViews \o
  [i \in 1..NumWorkers |-> Wn(UserName(i - 1))] \o
  [i \in 1..NumWorkers |-> Sp(i - 1)] \o
  << Jn, Sl >> \o EnsureViews \o
  << Tc(FALSE, 500) >>

S23_19 == S23_19_Task1 \o S23_19_Tweets \o S23_19_Rooms \o S23_19_Workers

\* match number { ... } of validate: the arms of the scripts modelled here
ScriptName(v, n) ==
  IF v = "cch23"
  THEN CASE n = -1 -> "validate_minus1"
         [] n = 1 -> "validate_1"
         [] n = 13 -> "validate_13"
         [] n = 19 -> "validate_19"
         [] OTHER -> "none"
  ELSE CASE n = "-1" -> "validate_minus1"
         [] n = "2" -> "validate_2"
         [] n = "9" -> "validate_9"
         [] OTHER -> "none"

ScriptTable ==
  [cch23 |-> [validate_minus1 |-> S23_minus1, validate_1 |-> S23_1,
              validate_13 |-> S23_13, validate_19 |-> S23_19,
              none |-> << >>],
   cch24 |-> [validate_minus1 |-> S24_minus1, validate_2 |-> S24_2,
              validate_9 |-> S24_9, none |-> << >>]]

Script(v, n) == ScriptTable[v][ScriptName(v, n)]

\* SUPPORTED_CHALLENGES.contains(&number)
Supported(v, n) ==
  IF v = "cch23" THEN n \in SUPPORTED_CHALLENGES_23
                 ELSE n \in SUPPORTED_CHALLENGES_24

\* variant: the match of cch23 has no arm for 22
MatchArms_23_Without22 ==
  {-1, 1, 4, 5, 6, 7, 8, 11, 12, 13, 14, 15, 18, 19, 20, 21}

\* the patterns of `match number { .. }` that call a script
\* (cch23 lines 66-82, cch24 lines 61-68)
MatchArms_23 ==
  {-1, 1, 4, 5, 6, 7, 8, 11, 12, 13, 14, 15, 18, 19, 20, 21, 22}
MatchArms_24 == {"-1", "2", "5", "9", "12", "16", "19", "23"}

\* where validate goes for a number.  cch23 returns early unless the
\* number is in SUPPORTED_CHALLENGES and then matches, with
\* `_ => unreachable!()`; cch24 only matches, and its `_` arm is the
\* not-supported branch
Dispatch(v, n) ==
  IF v = "cch23"
  THEN IF ~Supported(v, n) THEN "unsupLog"
       ELSE IF n \in MatchArms_23 THEN "script"
       ELSE "unreachable"
  ELSE IF n \in MatchArms_24 THEN "script" ELSE "unsupLog"

\* Challenge numbers a run is started with: the modelled scripts and
\* identifiers without a script
Numbers(v) ==
  IF v = "cch23" THEN {-1, 1, 13, 19, 0, 2} ELSE {"-1", "2", "9", "1", "13"}

\* ------------------------------------------------------------------------
\* State
\* ------------------------------------------------------------------------
VARIABLES
  ver,        \* which validator crate runs
  number,     \* challenge identifier passed to run
  rpc,        \* position of run
  vpc,        \* position of validate
  spc,        \* index of the script's next operation
  test,       \* the script's local `test: TaskTest`
  result,     \* the script's ValidateResult
  io,         \* awaited operation of the script: none, pending, ok, fail
  blocked,    \* the validate future is pending in tx.send on a full channel
  yielded,    \* the validate future has returned Pending at least once
  mustFire,   \* the current poll of select found the script pending with
              \* the sleep ready: the sleep branch is taken next
  elapsed,    \* the sleep of SUBMISSION_TIMEOUT seconds is ready
  chan,       \* the mpsc channel: events sent and not yet received
  events,     \* every event sent in this invocation, in order
  src,        \* for each event, who sent it: run, validate, script, timer
  winner,     \* branch of select! that completed: none, script, timer
  tcTasks,    \* task number of `test` at each TaskCompleted sent
  stepsRun,   \* number of Io / Ck / Sl operations the script has finished
  failedAt,   \* index of the operation that failed, 0 if none
  lateSuspends, \* times the script returned Pending with the sleep ready
  lateAt,     \* position of validate at the first such Pending
  firedAt,    \* number of events sent when the sleep branch was taken
  httpUrl,    \* base_url begins with "http"
  ws,         \* the WS harnesses of validate_19: state and `test` field
  wio,        \* awaited harness / JoinSet operation: none, pending, ok, fail
  wk,         \* the workers of the concurrent section: position, result
  joinq,      \* workers that completed and were not yet joined, in order
  joined,     \* workers whose result join_next has yielded, in order
  doneOrder,  \* the workers in the order they completed
  wsUsers,    \* for each harness, who has sent, received or closed on it
  hs,         \* a harness exercised on its own: `test` and unread frames
  feed,       \* frames that harness's connection has yet to deliver
  hcall,      \* the call on that harness in progress or last completed
  srv,        \* a server under test: rooms, frames sent, view counter
  rx,         \* the receiver of the channel and the printer that owns it
  mn          \* main: the challenge numbers and the run in progress

vars ==
  << ver, number, rpc, vpc, spc, test, result, io, blocked, yielded,
     mustFire, elapsed, chan, events, src, winner, tcTasks, stepsRun, failedAt,
     lateSuspends, lateAt, firedAt, httpUrl, ws, wio, wk, joinq, joined,
     doneOrder, wsUsers, hs, feed, hcall, srv, rx, mn >>

\* the state of validate_19's harnesses and workers, and of the harness
\* that is exercised on its own
wsVars == << httpUrl, ws, wio, wk, joinq, joined, doneOrder, wsUsers >>
hVars == << hs, feed, hcall >>
ext == << wsVars, hVars, srv, rx, mn >>

hist == << tcTasks, stepsRun, failedAt, firedAt >>

NoResult == [st |-> "none", tt |-> <<0, 0>>]
OkResult == [st |-> "Ok", tt |-> <<0, 0>>]
ErrResult(tt) == [st |-> "Err", tt |-> tt]
\* what join_next yields for a task that panicked: Err(JoinError)
JoinError == [st |-> "Panic", tt |-> <<0, 0>>]

theScript == Script(ver, number)
CurOp == theScript[spc]
InScript == vpc = "script" /\ spc <= Len(theScript)
AtOp(k) == InScript /\ CurOp.k = k

HasCap == Len(chan) < ChanCap
Suspended == io /= "none" \/ wio /= "none" \/ blocked

\* tx.send(ev).await once a permit is available
Emit(ev, who) ==
  /\ rx.open
  /\ chan' = Append(chan, ev)
  /\ events' = Append(events, ev)
  /\ src' = Append(src, who)

\* the validate future returns Pending; select! polls the sleep after it
Suspend ==
  /\ yielded' = TRUE
  /\ mustFire' = elapsed
  /\ lateSuspends' = IF elapsed THEN lateSuspends + 1 ELSE lateSuspends
  /\ lateAt' = IF elapsed /\ lateSuspends = 0
               THEN [vpc |-> vpc, spc |-> spc, n |-> Len(events)]
               ELSE lateAt

NoSuspend == UNCHANGED << yielded, mustFire, lateSuspends, lateAt >>

NoHarness == [st |-> "none", test |-> <<0, 0>>]
NoWorker == [pc |-> "none", ii |-> 0, res |-> NoResult, run |-> FALSE]
\* a server that has seen nothing yet
NoServer ==
  [mode |-> "echo",
   room |-> [h \in WsNames |-> 0],
   inbox |-> [h \in WsNames |-> << >>],
   views |-> 0, faults |-> 0, leaked |-> FALSE, ignored |-> FALSE,
   board |-> 0, seed |-> 0,
   body |-> [status |-> 0, board |-> 0, rand |-> 0], after |-> << >>,
   took |-> 0]

\* the printer before its first recv: its three counters, the State and
\* TaskCompleted events it has received, what it has printed for each of
\* them, and the last two events received
NoPrinter ==
  [open |-> TRUE, tasks_completed |-> 0, days_completed |-> 0, bonus |-> 0,
   got |-> << >>, out |-> << >>, last |-> << >>, summary |-> << >>]
\* a run that was not started by main
NoMain == [pc |-> "none", nums |-> << >>, k |-> 0]

\* variant of the printer's loop body that keeps counting tasks over Done
get_printer_NoReset(p, s) ==
  LET tc == s.type = "TaskCompleted"
      n == IF tc THEN p.tasks_completed + 1 ELSE p.tasks_completed
      lines ==
        IF tc
        THEN << <<"task", n>> >>
               \o (IF s.bonus > 0 THEN << <<"bonus", s.bonus>> >> ELSE << >>)
               \o (IF s.final THEN << <<"core", 0>> >> ELSE << >>)
        ELSE << >>
      kept == s.type \in {"State", "TaskCompleted"}
  IN [p EXCEPT
        !.tasks_completed = n,
        !.days_completed = IF tc /\ s.final THEN @ + 1 ELSE @,
        !.bonus = IF tc /\ s.bonus > 0 THEN @ + s.bonus ELSE @,
        !.got = IF kept THEN Append(@, s) ELSE @,
        !.out = IF kept THEN Append(@, lines) ELSE @,
        !.last = IF Len(@) < 2 THEN Append(@, s) ELSE << @[2], s >>]

\* the body of `while let Some(s) = rx.recv().await` of get_printer: the
\* counters after event s and the lines printed for it
get_printer(p, s) ==
  LET tc == s.type = "TaskCompleted"
      n == IF tc THEN p.tasks_completed + 1
           ELSE IF s.type = "State" /\ s.state = "Done" THEN 0
           ELSE p.tasks_completed
      lines ==
        IF tc
        THEN << <<"task", n>> >>
               \o (IF s.bonus > 0 THEN << <<"bonus", s.bonus>> >> ELSE << >>)
               \o (IF s.final THEN << <<"core", 0>> >> ELSE << >>)
        ELSE << >>
      kept == s.type \in {"State", "TaskCompleted"}
  IN [p EXCEPT
        !.tasks_completed = n,
        !.days_completed = IF tc /\ s.final THEN @ + 1 ELSE @,
        !.bonus = IF tc /\ s.bonus > 0 THEN @ + s.bonus ELSE @,
        !.got = IF kept THEN Append(@, s) ELSE @,
        !.out = IF kept THEN Append(@, lines) ELSE @,
        !.last = IF Len(@) < 2 THEN Append(@, s) ELSE << @[2], s >>]

\* no call in progress; `all` are the items consumed so far, `stream`
\* everything the connection delivers
NoCall ==
  [op |-> "none", exp |-> Plain(""), ph |-> "idle", ret |-> NoResult,
   text |-> Plain(""), took |-> << >>, timer |-> FALSE, avail |-> FALSE,
   before |-> 0, all |-> << >>, stream |-> << >>, quiet |-> -1]

Init ==
  /\ ver \in Validators
  /\ number \in Numbers(ver)
  /\ rpc = "sendRunning"
  /\ vpc = "notStarted"
  /\ spc = 1
  /\ test = <<0, 0>>
  /\ result = NoResult
  /\ io = "none"
  /\ blocked = FALSE
  /\ yielded = FALSE
  /\ mustFire = FALSE
  /\ elapsed = FALSE
  /\ chan = << >>
  /\ events = << >>
  /\ src = << >>
  /\ winner = "none"
  /\ tcTasks = << >>
  /\ stepsRun = 0
  /\ failedAt = 0
  /\ lateSuspends = 0
  /\ lateAt = [vpc |-> "none", spc |-> 0, n |-> 0]
  /\ firedAt = -1
  /\ httpUrl \in BOOLEAN
  /\ ws = [h \in WsNames |-> NoHarness]
  /\ wio = "none"
  /\ wk = [i \in Workers |-> NoWorker]
  /\ joinq = << >>
  /\ joined = << >>
  /\ doneOrder = << >>
  /\ wsUsers = [h \in WsNames |-> {}]
  /\ hs = [test |-> <<0, 0>>, r |-> << >>]
  /\ feed = << >>
  /\ hcall = NoCall
  /\ srv = NoServer
  /\ rx = NoPrinter
  /\ mn = NoMain

\* ------------------------------------------------------------------------
\* run
\* ------------------------------------------------------------------------
\* tx.send(SubmissionState::Running.into()).await.unwrap();
RunSendRunning ==
  /\ rpc = "sendRunning"
  /\ HasCap
  /\ Emit(StateEv("Running"), "run")
  /\ rpc' = "sendSave"
  /\ UNCHANGED << ver, number, vpc, spc, test, result, io, blocked, elapsed,
                  winner, hist >>
  /\ NoSuspend
  /\ UNCHANGED ext

\* variant: select! is entered without the Save after Running
RunSendSave_Skipped ==
  /\ rpc = "sendSave"
  /\ rpc' = "select"
  /\ vpc' = "start"
  /\ UNCHANGED << ver, number, spc, test, result, io, blocked, elapsed,
                  chan, events, src, winner, hist >>
  /\ NoSuspend
  /\ UNCHANGED ext

\* tx.send(SubmissionUpdate::Save).await.unwrap(); then select! is entered
RunSendSave ==
  /\ rpc = "sendSave"
  /\ HasCap
  /\ Emit(SaveEv, "run")
  /\ rpc' = "select"
  /\ vpc' = "start"
  /\ UNCHANGED << ver, number, spc, test, result, io, blocked, elapsed,
                  winner, hist >>
  /\ NoSuspend
  /\ UNCHANGED ext

\* sleep(Duration::from_secs(SUBMISSION_TIMEOUT)) becomes ready; it is not
\* ready in the first poll of select!
TimerElapse ==
  /\ rpc = "select"
  /\ yielded
  /\ ~elapsed
  /\ elapsed' = TRUE
  /\ UNCHANGED << ver, number, rpc, vpc, spc, test, result, io, blocked,
                  chan, events, src, winner, hist >>
  /\ NoSuspend
  /\ UNCHANGED ext

\* variant: the sleep branch is taken but the validate future lives on, as
\* if it had been spawned instead of raced in place
TimerFire_KeepsValidate ==
  /\ rpc = "select"
  /\ elapsed
  /\ Suspended
  /\ rpc' = "toLog"
  /\ mustFire' = FALSE
  /\ winner' = "timer"
  /\ firedAt' = Len(events)
  /\ UNCHANGED << ver, number, vpc, spc, test, result, io, blocked, elapsed,
                  chan, events, src, tcTasks, stepsRun, failedAt, yielded,
                  lateSuspends, lateAt >>
  /\ UNCHANGED ext

\* select! takes the sleep branch: the validate future is pending and is
\* dropped
TimerFire ==
  /\ rpc = "select"
  /\ elapsed
  /\ Suspended
  /\ rpc' = "toLog"
  /\ vpc' = "dropped"
  /\ io' = "none"
  /\ blocked' = FALSE
  /\ mustFire' = FALSE
  /\ winner' = "timer"
  /\ firedAt' = Len(events)
  /\ UNCHANGED << ver, number, spc, test, result, elapsed, chan, events,
                  src, tcTasks, stepsRun, failedAt, yielded, lateSuspends,
                  lateAt >>
  /\ UNCHANGED ext

\* variant: the timer branch of cch24 sends no log line
RunTimedOutLog_SilentIn24 ==
  /\ rpc = "toLog"
  /\ HasCap
  /\ IF ver = "cch24"
     THEN rx.open /\ UNCHANGED << chan, events, src >>
     ELSE Emit(LogLineEv(TimedOutText), "timer")
  /\ rpc' = "toDone"
  /\ UNCHANGED << ver, number, vpc, spc, test, result, io, blocked, elapsed,
                  winner, hist >>
  /\ NoSuspend
  /\ UNCHANGED ext

\* tx.send("Timed out".to_owned().into()).await.unwrap();
RunTimedOutLog ==
  /\ rpc = "toLog"
  /\ HasCap
  /\ Emit(LogLineEv(TimedOutText), "timer")
  /\ rpc' = "toDone"
  /\ UNCHANGED << ver, number, vpc, spc, test, result, io, blocked, elapsed,
                  winner, hist >>
  /\ NoSuspend
  /\ UNCHANGED ext

\* variant: the timer branch reports Error instead of Done
RunTimedOutDone_Error ==
  /\ rpc = "toDone"
  /\ HasCap
  /\ Emit(StateEv("Error"), "timer")
  /\ rpc' = "toSave"
  /\ UNCHANGED << ver, number, vpc, spc, test, result, io, blocked, elapsed,
                  winner, hist >>
  /\ NoSuspend
  /\ UNCHANGED ext

\* tx.send(SubmissionState::Done.into()).await.unwrap();
RunTimedOutDone ==
  /\ rpc = "toDone"
  /\ HasCap
  /\ Emit(StateEv("Done"), "timer")
  /\ rpc' = "toSave"
  /\ UNCHANGED << ver, number, vpc, spc, test, result, io, blocked, elapsed,
                  winner, hist >>
  /\ NoSuspend
  /\ UNCHANGED ext

\* tx.send(SubmissionUpdate::Save).await.unwrap(); and run returns
RunTimedOutSave ==
  /\ rpc = "toSave"
  /\ HasCap
  /\ Emit(SaveEv, "timer")
  /\ rpc' = "returned"
  /\ UNCHANGED << ver, number, vpc, spc, test, result, io, blocked, elapsed,
                  winner, hist >>
  /\ NoSuspend
  /\ UNCHANGED ext

\* ------------------------------------------------------------------------
\* validate and the scripts (the first branch of select!)
\* ------------------------------------------------------------------------
\* a tx.send of the validate future can complete in this poll
CanSend == HasCap /\ (blocked => ~mustFire)

AtSend ==
  \/ vpc \in {"unsupLog", "failLog", "sendDone", "sendSave"}
  \/ AtOp("Tc") \/ AtOp("Sv") \/ AtOp("Ls")

\* the supported check (cch23) and the match
ValidateStart ==
  /\ vpc = "start"
  /\ vpc' = Dispatch(ver, number)
  /\ UNCHANGED << ver, number, rpc, spc, test, result, io, blocked, elapsed,
                  chan, events, src, winner, hist >>
  /\ NoSuspend
  /\ UNCHANGED ext

\* tx.send(format!("Validating Challenge {number} is not supported ..."));
\* return;
ValidateUnsupported ==
  /\ vpc = "unsupLog"
  /\ CanSend
  /\ Emit(LogLineEv(UnsupportedText(ver, number)), "validate")
  /\ vpc' = "returned"
  /\ rpc' = "returned"
  /\ winner' = "script"
  /\ blocked' = FALSE
  /\ UNCHANGED << ver, number, spc, test, result, io, elapsed, hist >>
  /\ NoSuspend
  /\ UNCHANGED ext

\* test = (a, b);
ScriptSetTest ==
  /\ AtOp("St")
  /\ test' = <<CurOp.a, CurOp.b>>
  /\ spc' = spc + 1
  /\ UNCHANGED << ver, number, rpc, vpc, result, io, blocked, elapsed, chan,
                  events, src, winner, hist >>
  /\ NoSuspend
  /\ UNCHANGED ext

\* the script starts a request, a body read or a sleep and awaits it
ScriptAwait ==
  /\ AtOp("Io") \/ AtOp("Sl")
  /\ io = "none"
  /\ io' = "pending"
  /\ Suspend
  /\ UNCHANGED << ver, number, rpc, vpc, spc, test, result, blocked, elapsed,
                  chan, events, src, winner, hist >>
  /\ UNCHANGED ext

\* the server answers (or the transport fails); a sleep only completes
IoComplete ==
  /\ InScript
  /\ io = "pending"
  /\ \E r \in (IF CurOp.k = "Io" THEN {"ok", "fail"} ELSE {"ok"}) : io' = r
  /\ UNCHANGED << ver, number, rpc, vpc, spc, test, result, blocked, elapsed,
                  chan, events, src, winner, hist >>
  /\ NoSuspend
  /\ UNCHANGED ext

\* variant: the script is polled again although the sleep was ready when it
\* last returned Pending
ScriptResume_IgnoresTimer ==
  /\ InScript
  /\ io \in {"ok", "fail"}
  /\ io' = "none"
  /\ IF io = "ok"
     THEN /\ spc' = spc + 1
          /\ stepsRun' = stepsRun + 1
          /\ UNCHANGED << vpc, result, failedAt >>
     ELSE /\ result' = ErrResult(test)
          /\ vpc' = "failLog"
          /\ failedAt' = spc
          /\ UNCHANGED << spc, stepsRun >>
  /\ UNCHANGED << ver, number, rpc, test, blocked, elapsed, chan, events,
                  src, winner, tcTasks, firedAt >>
  /\ NoSuspend
  /\ UNCHANGED ext

\* `.await.map_err(|_| test)?` is polled with its operation complete
ScriptResume ==
  /\ InScript
  /\ io \in {"ok", "fail"}
  /\ ~mustFire
  /\ io' = "none"
  /\ IF io = "ok"
     THEN /\ spc' = spc + 1
          /\ stepsRun' = stepsRun + 1
          /\ UNCHANGED << vpc, result, failedAt >>
     ELSE /\ result' = ErrResult(test)
          /\ vpc' = "failLog"
          /\ failedAt' = spc
          /\ UNCHANGED << spc, stepsRun >>
  /\ UNCHANGED << ver, number, rpc, test, blocked, elapsed, chan, events,
                  src, winner, tcTasks, firedAt >>
  /\ NoSuspend
  /\ UNCHANGED ext

\* if <response differs from the expected value> { return Err(test); }
ScriptCheck ==
  /\ AtOp("Ck")
  /\ \E pass \in BOOLEAN :
       IF pass
       THEN /\ spc' = spc + 1
            /\ stepsRun' = stepsRun + 1
            /\ UNCHANGED << vpc, result, failedAt >>
       ELSE /\ result' = ErrResult(test)
            /\ vpc' = "failLog"
            /\ failedAt' = spc
            /\ UNCHANGED << spc, stepsRun >>
  /\ UNCHANGED << ver, number, rpc, test, io, blocked, elapsed, chan, events,
                  src, winner, tcTasks, firedAt >>
  /\ NoSuspend
  /\ UNCHANGED ext

\* milliseconds the requests between `start` and `end` can have taken:
\* the threshold itself and the first value above it
Durations == {500, 501}

\* variant: the warning is sent from 500 ms on
ScriptLatency_Inclusive ==
  /\ AtOp("Lg")
  /\ \E d \in Durations :
       /\ srv' = [srv EXCEPT !.took = d]
       /\ spc' = IF d >= 500 THEN spc + 1 ELSE spc + 2
  /\ UNCHANGED << ver, number, rpc, vpc, test, result, io, blocked, elapsed,
                  chan, events, src, winner, hist >>
  /\ NoSuspend
  /\ UNCHANGED << wsVars, hVars, rx, mn >>

\* let end = Utc::now();
\* if end - start > TimeDelta::milliseconds(500) { ... }
ScriptLatency ==
  /\ AtOp("Lg")
  /\ \E d \in Durations :
       /\ srv' = [srv EXCEPT !.took = d]
       /\ spc' = IF d > 500 THEN spc + 1 ELSE spc + 2
  /\ UNCHANGED << ver, number, rpc, vpc, test, result, io, blocked, elapsed,
                  chan, events, src, winner, hist >>
  /\ NoSuspend
  /\ UNCHANGED << wsVars, hVars, rx, mn >>

\* tx.send(SubmissionUpdate::LogLine("Info: High network latency ..."))
ScriptSendLatency ==
  /\ AtOp("Ls")
  /\ CanSend
  /\ Emit(LogLineEv(LatencyText), "script")
  /\ spc' = spc + 1
  /\ blocked' = FALSE
  /\ UNCHANGED << ver, number, rpc, vpc, test, result, io, elapsed, winner,
                  hist >>
  /\ NoSuspend
  /\ UNCHANGED ext

\* tx.send((is_final, bonus).into()).await.unwrap();
ScriptTaskCompleted ==
  /\ AtOp("Tc")
  /\ CanSend
  /\ Emit(TaskCompletedEv(CurOp.f, CurOp.b), "script")
  /\ tcTasks' = Append(tcTasks, test[1])
  /\ spc' = spc + 1
  /\ blocked' = FALSE
  /\ UNCHANGED << ver, number, rpc, vpc, test, result, io, elapsed, winner,
                  stepsRun, failedAt, firedAt >>
  /\ NoSuspend
  /\ UNCHANGED ext

\* tx.send(SubmissionUpdate::Save).await.unwrap(); inside a script
ScriptSave ==
  /\ AtOp("Sv")
  /\ CanSend
  /\ Emit(SaveEv, "script")
  /\ spc' = spc + 1
  /\ blocked' = FALSE
  /\ UNCHANGED << ver, number, rpc, vpc, test, result, io, elapsed, winner,
                  hist >>
  /\ NoSuspend
  /\ UNCHANGED ext

\* Ok(()) at the end of a script
ScriptReturnOk ==
  /\ vpc = "script"
  /\ spc = Len(theScript) + 1
  /\ result' = OkResult
  /\ vpc' = "sendDone"
  /\ UNCHANGED << ver, number, rpc, spc, test, io, blocked, elapsed, chan,
                  events, src, winner, hist >>
  /\ NoSuspend
  /\ UNCHANGED ext

\* variant: task and test are swapped in the failure line
ValidateFailLog_Swapped ==
  /\ vpc = "failLog"
  /\ CanSend
  /\ Emit(LogLineEv(FailedText(<<result.tt[2], result.tt[1]>>)), "validate")
  /\ vpc' = "sendDone"
  /\ blocked' = FALSE
  /\ UNCHANGED << ver, number, rpc, spc, test, result, io, elapsed, winner,
                  hist >>
  /\ NoSuspend
  /\ UNCHANGED ext

\* tx.send(format!("Task {task}: test #{test} failed")) of validate
ValidateFailLog ==
  /\ vpc = "failLog"
  /\ CanSend
  /\ Emit(LogLineEv(FailedText(result.tt)), "validate")
  /\ vpc' = "sendDone"
  /\ blocked' = FALSE
  /\ UNCHANGED << ver, number, rpc, spc, test, result, io, elapsed, winner,
                  hist >>
  /\ NoSuspend
  /\ UNCHANGED ext

\* tx.send(SubmissionState::Done.into()).await.unwrap(); of validate
ValidateSendDone ==
  /\ vpc = "sendDone"
  /\ CanSend
  /\ Emit(StateEv("Done"), "validate")
  /\ vpc' = "sendSave"
  /\ blocked' = FALSE
  /\ UNCHANGED << ver, number, rpc, spc, test, result, io, elapsed, winner,
                  hist >>
  /\ NoSuspend
  /\ UNCHANGED ext

\* tx.send(SubmissionUpdate::Save).await.unwrap(); validate returns and
\* select! completes with its first branch
ValidateSendSave ==
  /\ vpc = "sendSave"
  /\ CanSend
  /\ Emit(SaveEv, "validate")
  /\ vpc' = "returned"
  /\ rpc' = "returned"
  /\ winner' = "script"
  /\ blocked' = FALSE
  /\ UNCHANGED << ver, number, spc, test, result, io, elapsed, hist >>
  /\ NoSuspend
  /\ UNCHANGED ext

\* ------------------------------------------------------------------------
\* validate_19: WS harnesses and the concurrent section
\* ------------------------------------------------------------------------
IsWsOp(o) == o.k \in {"Wn", "Ws", "Wr", "Wj", "Wx", "Wc"}
WorkerName(i) == "worker" \o ToString(i)
ViewsIdx == NumPhrases \div 2

\* let ws_base_url = format!("ws{}", base_url.strip_prefix("http")
\*     .expect("url to begin with http"));
ScriptExpectHttp ==
  /\ AtOp("Ex")
  /\ IF httpUrl
     THEN spc' = spc + 1 /\ UNCHANGED << rpc, vpc >>
     ELSE rpc' = "panicked" /\ vpc' = "panicked" /\ UNCHANGED spc
  /\ UNCHANGED << ver, number, test, result, io, blocked, elapsed, chan,
                  events, src, winner, hist >>
  /\ NoSuspend
  /\ UNCHANGED ext

\* variant: the assignment to the field of the harness is lost
WsSetTest_Ignored ==
  /\ AtOp("Wt")
  /\ ws' = ws
  /\ spc' = spc + 1
  /\ UNCHANGED << ver, number, rpc, vpc, test, result, io, blocked, elapsed,
                  chan, events, src, winner, hist >>
  /\ NoSuspend
  /\ UNCHANGED << httpUrl, wio, wk, joinq, joined, doneOrder,
                  wsUsers, hVars, srv, rx, mn >>

\* ws.test = test;
WsSetTest ==
  /\ AtOp("Wt")
  /\ ws' = [ws EXCEPT ![CurOp.h].test = test]
  /\ spc' = spc + 1
  /\ UNCHANGED << ver, number, rpc, vpc, test, result, io, blocked, elapsed,
                  chan, events, src, winner, hist >>
  /\ NoSuspend
  /\ UNCHANGED << httpUrl, wio, wk, joinq, joined, doneOrder,
                  wsUsers, hVars, srv, rx, mn >>

\* the script calls WS::new, a method of a harness, or the race of recv
\* against a sleep, and awaits it
WsAwait ==
  /\ InScript
  /\ IsWsOp(CurOp)
  /\ wio = "none"
  /\ wio' = "pending"
  /\ wsUsers' = IF CurOp.k = "Wn" THEN wsUsers
                ELSE [wsUsers EXCEPT ![CurOp.h] = @ \cup {"main"}]
  /\ Suspend
  /\ UNCHANGED << ver, number, rpc, vpc, spc, test, result, io, blocked,
                  elapsed, chan, events, src, winner, hist >>
  /\ UNCHANGED << httpUrl, ws, wk, joinq, joined, doneOrder, hVars, srv, rx,
                  mn >>

\* the frames the peer may deliver to a receive of the script: the
\* expected text, the same JSON written differently, other texts, and
\* everything that is not a text frame
FramesFor(o) ==
  NonTextFrames \cup
  {TextFrame(t) :
     t \in IF o.k = "Wr" THEN {o.e, Plain("other")}
           ELSE {to_string(o.e.c), Spaced(o.e.c),
                 to_string(UserMessage("other", "other")), Plain("not json")}}

\* how the awaited operation can end.  Wx: "ok" is the sleep branch of the
\* inner select!, "fail" the recv branch (recv completed, with anything)
WsOutcomes(o, t) ==
  CASE o.k = "Wr" ->
         {IF WS_recv_str(f, o.e, t).st = "Ok" THEN "ok" ELSE "fail" :
            f \in FramesFor(o)}
    [] o.k = "Wj" ->
         {IF WS_recv_json(f, o.e.c, t).st = "Ok" THEN "ok" ELSE "fail" :
            f \in FramesFor(o)}
    [] OTHER -> {"ok", "fail"}

\* the server answers, a frame arrives, the transport fails or the inner
\* sleep elapses
WsComplete ==
  /\ InScript
  /\ IsWsOp(CurOp)
  /\ wio = "pending"
  /\ \E r \in WsOutcomes(CurOp, ws[CurOp.h].test) : wio' = r
  /\ UNCHANGED << ver, number, rpc, vpc, spc, test, result, io, blocked,
                  elapsed, chan, events, src, winner, hist >>
  /\ NoSuspend
  /\ UNCHANGED << httpUrl, ws, wk, joinq, joined, doneOrder,
                  wsUsers, hVars, srv, rx, mn >>

\* the script's step failed with TaskTest tt: `?` / return Err(..)
ScriptFails(tt) ==
  /\ result' = ErrResult(tt)
  /\ vpc' = "failLog"
  /\ failedAt' = spc
  /\ UNCHANGED << spc, stepsRun >>

ScriptStepDone ==
  /\ spc' = spc + 1
  /\ stepsRun' = stepsRun + 1
  /\ UNCHANGED << vpc, result, failedAt >>

\* variant: a failed connection is replaced by a harness that is not
\* connected, and the script goes on
WsNewResume_KeepsGoing ==
  /\ AtOp("Wn")
  /\ wio \in {"ok", "fail"}
  /\ ~mustFire
  /\ wio' = "none"
  /\ ws' = [ws EXCEPT ![CurOp.h] =
              [st |-> IF wio = "ok" THEN "open" ELSE "closed", test |-> test]]
  /\ wk' = [i \in Workers |->
              IF UserName(i) = CurOp.h
              THEN [NoWorker EXCEPT !.pc = "created"] ELSE wk[i]]
  /\ ScriptStepDone
  /\ UNCHANGED << ver, number, rpc, test, io, blocked, elapsed, chan, events,
                  src, winner, tcTasks, firedAt >>
  /\ NoSuspend
  /\ UNCHANGED << httpUrl, joinq, joined, doneOrder,
                  wsUsers, hVars, srv, rx, mn >>

\* WS::new(test, url).await?  (and, in the loop of the concurrent section,
\* tasks.push(async move { .. }) with the new harness moved into it)
WsNewResume ==
  /\ AtOp("Wn")
  /\ wio \in {"ok", "fail"}
  /\ ~mustFire
  /\ wio' = "none"
  /\ IF wio = "ok"
     THEN /\ ws' = [ws EXCEPT ![CurOp.h] = [st |-> "open", test |-> test]]
          /\ wk' = [i \in Workers |->
                      IF UserName(i) = CurOp.h
                      THEN [NoWorker EXCEPT !.pc = "created"] ELSE wk[i]]
          /\ ScriptStepDone
     ELSE /\ ScriptFails(test)
          /\ UNCHANGED << ws, wk >>
  /\ UNCHANGED << ver, number, rpc, test, io, blocked, elapsed, chan, events,
                  src, winner, tcTasks, firedAt >>
  /\ NoSuspend
  /\ UNCHANGED << httpUrl, joinq, joined, doneOrder,
                  wsUsers, hVars, srv, rx, mn >>

\* h.send(..).await? / h.recv_str(..).await? / h.recv_json(..).await? /
\* h.close().await?: `.map_err(|_| self.test)`, `return Err(self.test)`;
\* close takes the harness by value
WsOpResume ==
  /\ InScript
  /\ CurOp.k \in {"Ws", "Wr", "Wj", "Wc"}
  /\ wio \in {"ok", "fail"}
  /\ ~mustFire
  /\ wio' = "none"
  /\ ws' = IF CurOp.k = "Wc" THEN [ws EXCEPT ![CurOp.h].st = "closed"] ELSE ws
  /\ IF wio = "ok" THEN ScriptStepDone ELSE ScriptFails(ws[CurOp.h].test)
  /\ UNCHANGED << ver, number, rpc, test, io, blocked, elapsed, chan, events,
                  src, winner, tcTasks, firedAt >>
  /\ NoSuspend
  /\ UNCHANGED << httpUrl, wk, joinq, joined, doneOrder,
                  wsUsers, hVars, srv, rx, mn >>

\* tokio::select! { _ = h.recv() => { return Err(test); },
\*                  _ = sleep(..) => (), };
WsSilenceResume ==
  /\ AtOp("Wx")
  /\ wio \in {"ok", "fail"}
  /\ ~mustFire
  /\ wio' = "none"
  /\ IF wio = "ok" THEN ScriptStepDone ELSE ScriptFails(test)
  /\ UNCHANGED << ver, number, rpc, test, io, blocked, elapsed, chan, events,
                  src, winner, tcTasks, firedAt >>
  /\ NoSuspend
  /\ UNCHANGED << httpUrl, ws, wk, joinq, joined, doneOrder,
                  wsUsers, hVars, srv, rx, mn >>

\* for t in tasks.into_iter() { joins.spawn(t); }
WorkerSpawn ==
  /\ AtOp("Sp")
  /\ wk' = [wk EXCEPT ![CurOp.a].pc = "send"]
  /\ spc' = spc + 1
  /\ UNCHANGED << ver, number, rpc, vpc, test, result, io, blocked, elapsed,
                  chan, events, src, winner, hist >>
  /\ NoSuspend
  /\ UNCHANGED << httpUrl, ws, wio, joinq, joined, doneOrder,
                  wsUsers, hVars, srv, rx, mn >>

\* joins.join_next().await finds no completed worker: Pending
JoinAwait ==
  /\ AtOp("Jn")
  /\ wio = "none"
  /\ joinq = << >>
  /\ Len(joined) < NumWorkers
  /\ wio' = "pending"
  /\ Suspend
  /\ UNCHANGED << ver, number, rpc, vpc, spc, test, result, io, blocked,
                  elapsed, chan, events, src, winner, hist >>
  /\ UNCHANGED << httpUrl, ws, wk, joinq, joined, doneOrder,
                  wsUsers, hVars, srv, rx, mn >>

\* variant: join_next yields the worker that completed last
JoinNext_Newest ==
  /\ AtOp("Jn")
  /\ ~mustFire
  /\ joinq /= << >> \/ Len(joined) = NumWorkers
  /\ wio' = "none"
  /\ IF joinq = << >>
     THEN /\ ScriptStepDone
          /\ UNCHANGED << joinq, joined >>
     ELSE /\ joinq' = SubSeq(joinq, 1, Len(joinq) - 1)
          /\ joined' = Append(joined, joinq[Len(joinq)])
          /\ CASE wk[joinq[Len(joinq)]].res.st = "Err" ->
                    ScriptFails(wk[joinq[Len(joinq)]].res.tt)
               [] wk[joinq[Len(joinq)]].res.st = "Panic" -> ScriptStepDone
               [] OTHER -> UNCHANGED << spc, stepsRun, vpc, result, failedAt >>
  /\ UNCHANGED << ver, number, rpc, test, io, blocked, elapsed, chan, events,
                  src, winner, tcTasks, firedAt >>
  /\ NoSuspend
  /\ UNCHANGED << httpUrl, ws, wk, doneOrder, wsUsers, hVars, srv, rx, mn >>

\* while let Some(Ok(r)) = joins.join_next().await { r?; }
\* join_next yields the results in the order the workers completed, and
\* None once every worker was joined; the loop ends at None and at the
\* first Some(Err(_)), the JoinError of a worker that panicked
JoinNext ==
  /\ AtOp("Jn")
  /\ ~mustFire
  /\ joinq /= << >> \/ Len(joined) = NumWorkers
  /\ wio' = "none"
  /\ IF joinq = << >>
     THEN /\ ScriptStepDone
          /\ UNCHANGED << joinq, joined >>
     ELSE /\ joinq' = Tail(joinq)
          /\ joined' = Append(joined, Head(joinq))
          /\ CASE wk[Head(joinq)].res.st = "Err" ->
                    ScriptFails(wk[Head(joinq)].res.tt)
               [] wk[Head(joinq)].res.st = "Panic" -> ScriptStepDone
               [] OTHER -> UNCHANGED << spc, stepsRun, vpc, result, failedAt >>
  /\ UNCHANGED << ver, number, rpc, test, io, blocked, elapsed, chan, events,
                  src, winner, tcTasks, firedAt >>
  /\ NoSuspend
  /\ UNCHANGED << httpUrl, ws, wk, doneOrder, wsUsers, hVars, srv, rx, mn >>

\* The JoinSet lives in validate_19: when that future is dropped or
\* returns, the JoinSet is dropped and aborts its workers.  The runtime of
\* #[tokio::main] polls a spawned worker on its own thread; an abort stops
\* a worker where it has yielded and cannot interrupt a poll that is in
\* progress.
WorkerFrame ==
  UNCHANGED << ver, number, rpc, vpc, spc, test, result, io, blocked,
               elapsed, chan, events, src, winner, hist, httpUrl, wio,
               joined, hVars, srv, rx, mn >>

\* variant: the workers are detached tasks that no abort reaches
WorkerPoll_Detached(i) ==
  /\ wk[i].pc \in {"send", "views", "close"}
  /\ ~wk[i].run
  /\ wk' = [wk EXCEPT ![i].run = TRUE]
  /\ UNCHANGED << ws, wsUsers, joinq, doneOrder >>
  /\ WorkerFrame
  /\ NoSuspend

\* the runtime starts to poll worker i, which was not aborted
WorkerPoll(i) ==
  /\ vpc = "script"
  /\ wk[i].pc \in {"send", "views", "close"}
  /\ ~wk[i].run
  /\ wk' = [wk EXCEPT ![i].run = TRUE]
  /\ UNCHANGED << ws, wsUsers, joinq, doneOrder >>
  /\ WorkerFrame
  /\ NoSuspend

\* worker i is being polled and has reached pc
WorkerRuns(i, pc) == wk[i].run /\ wk[i].pc = pc

WorkerEnds(i, r) ==
  /\ wk' = [wk EXCEPT ![i] = [pc |-> "done", ii |-> wk[i].ii, res |-> r,
                              run |-> FALSE]]
  /\ joinq' = IF vpc = "script" THEN Append(joinq, i) ELSE joinq
  /\ doneOrder' = Append(doneOrder, i)

\* the next iteration of `for (ii, p) in ps.iter().enumerate()`, or the
\* end of the loop
WorkerAdvance(i) ==
  /\ wk' = [wk EXCEPT ![i] =
              [pc |-> IF wk[i].ii + 1 = NumPhrases THEN "close" ELSE "send",
               ii |-> wk[i].ii + 1, res |-> NoResult, run |-> FALSE]]
  /\ UNCHANGED << joinq, doneOrder >>

\* if i == 0 && ii == 100 { .. }: the worker goes on to the request
WorkerToViews(i) ==
  /\ wk' = [wk EXCEPT ![i].pc = "views", ![i].run = FALSE]
  /\ UNCHANGED << joinq, doneOrder >>

\* variant: every worker sends on the harness of worker 0
WorkerTweet_SharedHarness(i) ==
  /\ WorkerRuns(i, "send")
  /\ wsUsers' = [wsUsers EXCEPT ![UserName(0)] = @ \cup {WorkerName(i)}]
  /\ \E ok \in BOOLEAN :
       IF ~ok THEN WorkerEnds(i, ErrResult(ws[UserName(0)].test))
       ELSE IF i = 0 /\ wk[i].ii = ViewsIdx
            THEN WorkerToViews(i)
            ELSE WorkerAdvance(i)
  /\ UNCHANGED ws
  /\ WorkerFrame
  /\ NoSuspend

\* user.send_tweet(*p).await?; sleep(Duration::from_millis(1)).await;
\* if i == 0 && ii == 100 { .. }
WorkerTweet(i) ==
  /\ WorkerRuns(i, "send")
  /\ wsUsers' = [wsUsers EXCEPT ![UserName(i)] = @ \cup {WorkerName(i)}]
  /\ \E ok \in BOOLEAN :
       IF ~ok THEN WorkerEnds(i, ErrResult(ws[UserName(i)].test))
       ELSE IF i = 0 /\ wk[i].ii = ViewsIdx
            THEN WorkerToViews(i)
            ELSE WorkerAdvance(i)
  /\ UNCHANGED ws
  /\ WorkerFrame
  /\ NoSuspend

\* let client = new_client();   (.build().unwrap(), lines 95-104)
\* client.get(views_url.deref()).send().await.map_err(|_| test)?;
\* a panic of the worker is caught by its task and kept for join_next
WorkerViews ==
  /\ WorkerRuns(0, "views")
  /\ \E out \in {"sent", "failed", "panic"} :
       CASE out = "sent" -> WorkerAdvance(0)
         [] out = "failed" -> WorkerEnds(0, ErrResult(test))
         [] OTHER -> WorkerEnds(0, JoinError)
  /\ UNCHANGED << ws, wsUsers >>
  /\ WorkerFrame
  /\ NoSuspend

\* sleep(Duration::from_secs(2)).await; user.close().await?; Ok(())
WorkerClose(i) ==
  /\ WorkerRuns(i, "close")
  /\ wsUsers' = [wsUsers EXCEPT ![UserName(i)] = @ \cup {WorkerName(i)}]
  /\ ws' = [ws EXCEPT ![UserName(i)].st = "closed"]
  /\ \E ok \in BOOLEAN :
       WorkerEnds(i, IF ok THEN OkResult ELSE ErrResult(ws[UserName(i)].test))
  /\ WorkerFrame
  /\ NoSuspend

\* a tx.send of the validate future finds the channel full: Pending
SendBlock ==
  /\ AtSend
  /\ ~HasCap
  /\ ~blocked
  /\ blocked' = TRUE
  /\ Suspend
  /\ UNCHANGED << ver, number, rpc, vpc, spc, test, result, io, elapsed,
                  chan, events, src, winner, hist >>
  /\ UNCHANGED ext

\* ------------------------------------------------------------------------
\* The receiver of the channel (the printer task of main)
\* ------------------------------------------------------------------------
\* rx.recv().await yields the oldest event
Recv ==
  /\ chan /= << >>
  /\ rx.open
  /\ chan' = Tail(chan)
  /\ rx' = get_printer(rx, Head(chan))
  /\ UNCHANGED << ver, number, rpc, vpc, spc, test, result, io, blocked,
                  elapsed, events, src, winner, hist >>
  /\ NoSuspend
  /\ UNCHANGED << wsVars, hVars, srv, mn >>

Next ==
  \/ RunSendRunning
  \/ RunSendSave
  \/ TimerElapse
  \/ TimerFire
  \/ RunTimedOutLog
  \/ RunTimedOutDone
  \/ RunTimedOutSave
  \/ ValidateStart
  \/ ValidateUnsupported
  \/ ScriptSetTest
  \/ ScriptAwait
  \/ IoComplete
  \/ ScriptResume
  \/ ScriptCheck
  \/ ScriptLatency
  \/ ScriptSendLatency
  \/ ScriptTaskCompleted
  \/ ScriptSave
  \/ ScriptReturnOk
  \/ ValidateFailLog
  \/ ValidateSendDone
  \/ ValidateSendSave
  \/ SendBlock
  \/ Recv
  \/ ScriptExpectHttp
  \/ WsSetTest
  \/ WsAwait
  \/ WsComplete
  \/ WsNewResume
  \/ WsOpResume
  \/ WsSilenceResume
  \/ WorkerSpawn
  \/ JoinAwait
  \/ JoinNext
  \/ \E i \in Workers : WorkerPoll(i)
  \/ \E i \in Workers : WorkerTweet(i)
  \/ WorkerViews
  \/ \E i \in Workers : WorkerClose(i)

Spec == Init /\ [][Next]_vars

\* The run task is scheduled whenever it can make progress, the timer
\* driver fires the sleep, every request ends (the client has its own
\* timeouts) and the printer keeps receiving.
RunTask ==
  \/ RunSendRunning \/ RunSendSave \/ TimerFire
  \/ RunTimedOutLog \/ RunTimedOutDone \/ RunTimedOutSave
  \/ ValidateStart \/ ValidateUnsupported \/ ScriptSetTest \/ ScriptAwait
  \/ ScriptResume \/ ScriptCheck \/ ScriptLatency \/ ScriptSendLatency
  \/ ScriptTaskCompleted \/ ScriptSave \/ ScriptReturnOk
  \/ ValidateFailLog \/ ValidateSendDone \/ ValidateSendSave \/ SendBlock
  \/ ScriptExpectHttp \/ WsSetTest \/ WsAwait \/ WsNewResume \/ WsOpResume
  \/ WsSilenceResume \/ WorkerSpawn \/ JoinAwait \/ JoinNext

FairSpec ==
  /\ Spec
  /\ WF_vars(RunTask)
  /\ WF_vars(TimerElapse)
  /\ WF_vars(IoComplete)
  /\ WF_vars(WsComplete)
  /\ \A i \in Workers :
       WF_vars(WorkerPoll(i) \/ WorkerTweet(i) \/ WorkerViews \/ WorkerClose(i))
  /\ WF_vars(Recv)


\* ------------------------------------------------------------------------
\* run with a receiver that goes away: tx.send(..).await returns Err and
\* .unwrap() panics
\* ------------------------------------------------------------------------
\* the statement run is at is a tx.send of run itself
RunAtSend == rpc \in {"sendRunning", "sendSave", "toLog", "toDone", "toSave"}

\* the receiver is dropped; what the channel holds is dropped with it
RxClose ==
  /\ rx.open
  /\ rpc \notin {"returned", "panicked"}
  /\ rx' = [rx EXCEPT !.open = FALSE]
  /\ chan' = << >>
  /\ UNCHANGED << ver, number, rpc, vpc, spc, test, result, io, blocked,
                  elapsed, events, src, winner, hist >>
  /\ NoSuspend
  /\ UNCHANGED << wsVars, hVars, srv, mn >>

\* variant: the failed send is reported as a failure of the current test
SendPanics_AsFailure ==
  /\ ~rx.open
  /\ \/ RunAtSend
     \/ rpc = "select" /\ AtSend /\ (blocked => ~mustFire)
  /\ result' = ErrResult(test)
  /\ vpc' = "failLog"
  /\ UNCHANGED << ver, number, rpc, spc, test, io, blocked, elapsed, chan,
                  events, src, winner, hist >>
  /\ NoSuspend
  /\ UNCHANGED ext

\* tx.send(..).await.unwrap() with the receiver gone: the send returns
\* Err(SendError) whether or not it was waiting for a permit, unwrap
\* panics and run unwinds
SendPanics ==
  /\ ~rx.open
  /\ \/ RunAtSend
     \/ rpc = "select" /\ AtSend /\ (blocked => ~mustFire)
  /\ rpc' = "panicked"
  /\ vpc' = "panicked"
  /\ UNCHANGED << ver, number, spc, test, result, io, blocked, elapsed, chan,
                  events, src, winner, hist >>
  /\ NoSuspend
  /\ UNCHANGED ext

\* identifiers of short scripts and identifiers without a script
ClosedNumbers(v) ==
  IF v = "cch23" THEN {-1, 13, 2} ELSE {"-1", "2", "1"}

ClosedInit ==
  /\ Init
  /\ number \in ClosedNumbers(ver)

ClosedNext ==
  \/ RunSendRunning
  \/ RunSendSave
  \/ TimerElapse
  \/ TimerFire
  \/ RunTimedOutLog
  \/ RunTimedOutDone
  \/ RunTimedOutSave
  \/ ValidateStart
  \/ ValidateUnsupported
  \/ ScriptSetTest
  \/ ScriptAwait
  \/ IoComplete
  \/ ScriptResume
  \/ ScriptCheck
  \/ ScriptTaskCompleted
  \/ ScriptSave
  \/ ScriptReturnOk
  \/ ValidateFailLog
  \/ ValidateSendDone
  \/ ValidateSendSave
  \/ SendBlock
  \/ Recv
  \/ RxClose
  \/ SendPanics

ClosedSpec == ClosedInit /\ [][ClosedNext]_vars

\* ------------------------------------------------------------------------
\* main of the cch23 validator: the printer task and one run after the
\* other over the same channel
\* ------------------------------------------------------------------------
\* Largest number of challenge numbers on the command line
MaxRuns == 2

\* numbers given on the command line: a script with a bonus task and a
\* number that is not supported
MainNums ==
  UNION {[1..n -> {1, 2}] : n \in 1..MaxRuns}

MainInit ==
  /\ ver = "cch23"
  /\ mn \in {[pc |-> "run", nums |-> ns, k |-> 1] : ns \in MainNums}
  /\ number = mn.nums[1]
  /\ rpc = "sendRunning"
  /\ vpc = "notStarted"
  /\ spc = 1
  /\ test = <<0, 0>>
  /\ result = NoResult
  /\ io = "none"
  /\ blocked = FALSE
  /\ yielded = FALSE
  /\ mustFire = FALSE
  /\ elapsed = FALSE
  /\ chan = << >>
  /\ events = << >>
  /\ src = << >>
  /\ winner = "none"
  /\ tcTasks = << >>
  /\ stepsRun = 0
  /\ failedAt = 0
  /\ lateSuspends = 0
  /\ lateAt = [vpc |-> "none", spc |-> 0, n |-> 0]
  /\ firedAt = -1
  /\ httpUrl = TRUE
  /\ ws = [h \in WsNames |-> NoHarness]
  /\ wio = "none"
  /\ wk = [i \in Workers |-> NoWorker]
  /\ joinq = << >>
  /\ joined = << >>
  /\ doneOrder = << >>
  /\ wsUsers = [h \in WsNames |-> {}]
  /\ hs = [test |-> <<0, 0>>, r |-> << >>]
  /\ feed = << >>
  /\ hcall = NoCall
  /\ srv = NoServer
  /\ rx = NoPrinter

\* variant: the next run is started while the timer branch of the last
\* one still has events to send
MainNextRun_NotAwaited ==
  /\ mn.pc = "run"
  /\ rpc \in {"returned", "toDone", "toSave"}
  /\ mn.k < Len(mn.nums)
  /\ mn' = [mn EXCEPT !.k = @ + 1]
  /\ number' = mn.nums[mn.k + 1]
  /\ rpc' = "sendRunning"
  /\ vpc' = "notStarted"
  /\ spc' = 1
  /\ test' = <<0, 0>>
  /\ result' = NoResult
  /\ io' = "none"
  /\ blocked' = FALSE
  /\ yielded' = FALSE
  /\ mustFire' = FALSE
  /\ elapsed' = FALSE
  /\ events' = << >>
  /\ src' = << >>
  /\ winner' = "none"
  /\ tcTasks' = << >>
  /\ stepsRun' = 0
  /\ failedAt' = 0
  /\ lateSuspends' = 0
  /\ lateAt' = [vpc |-> "none", spc |-> 0, n |-> 0]
  /\ firedAt' = -1
  /\ UNCHANGED << ver, chan, wsVars, hVars, srv, rx >>

\* run(..).await has returned; sleep(10 ms); the next iteration of
\* `for num in nums` calls run with a new clone of tx
MainNextRun ==
  /\ mn.pc = "run"
  /\ rpc = "returned"
  /\ mn.k < Len(mn.nums)
  /\ mn' = [mn EXCEPT !.k = @ + 1]
  /\ number' = mn.nums[mn.k + 1]
  /\ rpc' = "sendRunning"
  /\ vpc' = "notStarted"
  /\ spc' = 1
  /\ test' = <<0, 0>>
  /\ result' = NoResult
  /\ io' = "none"
  /\ blocked' = FALSE
  /\ yielded' = FALSE
  /\ mustFire' = FALSE
  /\ elapsed' = FALSE
  /\ events' = << >>
  /\ src' = << >>
  /\ winner' = "none"
  /\ tcTasks' = << >>
  /\ stepsRun' = 0
  /\ failedAt' = 0
  /\ lateSuspends' = 0
  /\ lateAt' = [vpc |-> "none", spc |-> 0, n |-> 0]
  /\ firedAt' = -1
  /\ UNCHANGED << ver, chan, wsVars, hVars, srv, rx >>

\* the loop is over: drop(tx); every clone went with the run it was
\* given to
MainDropTx ==
  /\ mn.pc = "run"
  /\ rpc = "returned"
  /\ mn.k = Len(mn.nums)
  /\ mn' = [mn EXCEPT !.pc = "await"]
  /\ UNCHANGED << ver, number, rpc, vpc, spc, test, result, io, blocked,
                  elapsed, chan, events, src, winner, hist >>
  /\ NoSuspend
  /\ UNCHANGED << wsVars, hVars, srv, rx >>

\* rx.recv() returns None: the channel is empty and has no sender; the
\* summary is printed if nums.len() > 1 and the printer task ends
PrinterEnd ==
  /\ mn.pc = "await"
  /\ rx.open
  /\ chan = << >>
  /\ rx' = [rx EXCEPT
              !.open = FALSE,
              !.summary = IF Len(mn.nums) > 1
                          THEN << <<"summary", rx.days_completed, rx.bonus>> >>
                          ELSE << >>]
  /\ UNCHANGED << ver, number, rpc, vpc, spc, test, result, io, blocked,
                  elapsed, chan, events, src, winner, hist >>
  /\ NoSuspend
  /\ UNCHANGED << wsVars, hVars, srv, mn >>

\* printer.await.unwrap(); and main returns
MainJoin ==
  /\ mn.pc = "await"
  /\ ~rx.open
  /\ mn' = [mn EXCEPT !.pc = "exited"]
  /\ UNCHANGED << ver, number, rpc, vpc, spc, test, result, io, blocked,
                  elapsed, chan, events, src, winner, hist >>
  /\ NoSuspend
  /\ UNCHANGED << wsVars, hVars, srv, rx >>

MainNext ==
  \/ RunSendRunning
  \/ RunSendSave
  \/ TimerElapse
  \/ TimerFire
  \/ RunTimedOutLog
  \/ RunTimedOutDone
  \/ RunTimedOutSave
  \/ ValidateStart
  \/ ValidateUnsupported
  \/ ScriptSetTest
  \/ ScriptAwait
  \/ IoComplete
  \/ ScriptResume
  \/ ScriptCheck
  \/ ScriptTaskCompleted
  \/ ScriptSave
  \/ ScriptReturnOk
  \/ ValidateFailLog
  \/ ValidateSendDone
  \/ ValidateSendSave
  \/ SendBlock
  \/ Recv
  \/ MainNextRun
  \/ MainDropTx
  \/ PrinterEnd
  \/ MainJoin

MainSpec == MainInit /\ [][MainNext]_vars

\* every task that can run is run, the timer elapses and every request
\* ends
FairMainSpec == MainSpec /\ WF_vars(MainNext)


\* ------------------------------------------------------------------------
\* Helpers of the properties
\* ------------------------------------------------------------------------
Indices(P(_)) == {i \in DOMAIN events : P(events[i])}
IsDone(e) == e = StateEv("Done")
IsRunning(e) == e = StateEv("Running")
IsTaskCompleted(e) == e.type = "TaskCompleted"
IsTimedOut(e) == e = LogLineEv(TimedOutText)
DoneEmitted == Indices(IsDone) /= {}
TimedOutEmitted == Indices(IsTimedOut) /= {}
Last(s) == s[Len(s)]

\* the TaskTest pairs used by the scripts, and their failure lines
AllTaskTests == (1..6) \X (1..12)
IsFailedLine(e) ==
  e.type = "LogLine" /\ \E tt \in AllTaskTests : e.text = FailedText(tt)

\* the TaskTest in force at operation i of script s: the last St before it
MaxOf(S) == IF S = {} THEN 0 ELSE CHOOSE x \in S : \A y \in S : y <= x
LabelAt(s, i) ==
  LET j == MaxOf({h \in 1..i : s[h].k = "St"})
  IN IF j = 0 THEN <<0, 0>> ELSE <<s[j].a, s[j].b>>
IsStep(o) == o.k \in {"Io", "Ck", "Wn", "Ws", "Wr", "Wj", "Wx", "Wc", "Jn"}
TcOps(s) == {j \in DOMAIN s : s[j].k = "Tc"}

\* ------------------------------------------------------------------------
\* One WS harness on its own: the frames of its connection, and the calls
\* recv, recv_str, recv_json and the race of recv against a sleep
\* ------------------------------------------------------------------------
J1 == UserMessage("elonmusk", "s")
J2 == UserMessage("other", "s")

\* what the connection can deliver; the end of the stream comes last
WsItems ==
  {TextFrame(Plain("pong")), TextFrame(Plain("other")),
   TextFrame(to_string(J1)), TextFrame(Spaced(J1)), TextFrame(to_string(J2))}
  \cup (NonTextFrames \ {OtherFrame("End")})

WsStreams ==
  LET body == UNION {[1..n -> WsItems] : n \in 0..MaxFrames}
  IN body \cup {Append(b, OtherFrame("End")) : b \in body}

\* the calls of the scripts on a harness, with the expected value
WsCalls ==
  {[op |-> "recv", exp |-> Plain("")],
   [op |-> "recv_str", exp |-> Plain("pong")],
   [op |-> "recv_json", exp |-> to_string(J1)],
   [op |-> "race", exp |-> Plain("")]}

WsTests == {<<1, 1>>, <<1, 2>>}

WsInit ==
  /\ ver = "cch23"
  /\ number = 19
  /\ rpc = "validate"
  /\ vpc = "script"
  /\ spc = 1
  /\ test \in WsTests
  /\ result = NoResult
  /\ io = "none"
  /\ blocked = FALSE
  /\ yielded = FALSE
  /\ mustFire = FALSE
  /\ elapsed = FALSE
  /\ chan = << >>
  /\ events = << >>
  /\ src = << >>
  /\ winner = "none"
  /\ tcTasks = << >>
  /\ stepsRun = 0
  /\ failedAt = 0
  /\ lateSuspends = 0
  /\ lateAt = [vpc |-> "none", spc |-> 0, n |-> 0]
  /\ firedAt = -1
  /\ httpUrl = TRUE
  /\ ws = [h \in WsNames |-> NoHarness]
  /\ wio = "none"
  /\ wk = [i \in Workers |-> NoWorker]
  /\ joinq = << >>
  /\ joined = << >>
  /\ doneOrder = << >>
  /\ wsUsers = [h \in WsNames |-> {}]
  /\ hs = [test |-> <<1, 1>>, r |-> << >>]
  /\ feed \in WsStreams
  /\ hcall = [NoCall EXCEPT !.stream = feed]
  /\ srv = NoServer
  /\ rx = NoPrinter
  /\ mn = NoMain

WsFrame ==
  UNCHANGED << ver, number, rpc, vpc, spc, test, result, io, blocked, yielded,
               mustFire, elapsed, chan, events, src, winner, hist,
               lateSuspends, lateAt, wsVars, srv, rx, mn >>

\* the number of items the connection has delivered; hcall.quiet is that
\* number at the moment a silence window expired, kept until the next
\* receiving call has returned, -1 otherwise
Arrived == Len(hcall.stream) - Len(feed)

\* variant: an item that arrives after a silence window, while no call is
\* waiting for it, is dropped
WsArrive_DropsLate ==
  /\ feed /= << >>
  /\ feed' = Tail(feed)
  /\ hs' = IF hcall.quiet >= 0 /\ hcall.ph = "idle"
           THEN hs
           ELSE [hs EXCEPT !.r = Append(@, Head(feed))]
  /\ UNCHANGED hcall
  /\ WsFrame

\* the connection delivers its next item
WsArrive ==
  /\ feed /= << >>
  /\ feed' = Tail(feed)
  /\ hs' = [hs EXCEPT !.r = Append(@, Head(feed))]
  /\ UNCHANGED hcall
  /\ WsFrame

\* ws.test = test;
WsAssignTest ==
  /\ hcall.ph = "idle"
  /\ hs.test /= test
  /\ hs' = [hs EXCEPT !.test = test]
  /\ UNCHANGED << feed, hcall >>
  /\ WsFrame

\* the script calls a method of the harness, or starts the race
WsCall ==
  /\ hcall.ph = "idle"
  /\ \E c \in WsCalls :
       hcall' = [hcall EXCEPT !.op = c.op, !.exp = c.exp, !.ph = "pending",
                              !.ret = NoResult, !.text = Plain(""),
                              !.took = << >>, !.timer = FALSE,
                              !.avail = FALSE, !.before = Len(hcall.all)]
  /\ UNCHANGED << hs, feed >>
  /\ WsFrame

\* self.r.next() yields the oldest item; the end of the stream remains
Next_r == Head(hs.r)
After_r == IF Next_r.kind = "End" THEN hs.r ELSE Tail(hs.r)
Consumed == IF Next_r.kind = "End" THEN << >> ELSE << Next_r >>

\* recv / recv_str / recv_json complete once self.r.next() yields
WsRecvReady ==
  /\ hcall.ph = "pending"
  /\ hcall.op \in {"recv", "recv_str", "recv_json"}
  /\ hs.r /= << >>
  /\ hs' = [hs EXCEPT !.r = After_r]
  /\ LET ret == CASE hcall.op = "recv" -> WS_recv(Next_r, hs.test)
                  [] hcall.op = "recv_str" ->
                       WS_recv_str(Next_r, hcall.exp, hs.test)
                  [] OTHER ->
                       WS_recv_json(Next_r, from_str(hcall.exp).v, hs.test)
     IN hcall' = [hcall EXCEPT
                    !.ph = "done",
                    !.ret = [st |-> ret.st, tt |-> ret.tt],
                    !.text = IF hcall.op = "recv" THEN ret.text ELSE Plain(""),
                    !.took = << Next_r >>,
                    !.all = @ \o Consumed]
  /\ UNCHANGED feed
  /\ WsFrame

\* the sleep of the race elapses
WsRaceTimer ==
  /\ hcall.ph = "pending"
  /\ hcall.op = "race"
  /\ ~hcall.timer
  /\ hcall' = [hcall EXCEPT !.timer = TRUE]
  /\ UNCHANGED << hs, feed >>
  /\ WsFrame

\* variant: only a text frame fails the race
WsRaceSelect_TextOnly ==
  /\ hcall.ph = "pending"
  /\ hcall.op = "race"
  /\ \/ /\ hs.r /= << >>
        /\ hs' = [hs EXCEPT !.r = After_r]
        /\ hcall' = [hcall EXCEPT
                       !.ph = "done",
                       !.ret = IF Next_r.kind = "Text" THEN ErrResult(test)
                                                       ELSE OkResult,
                       !.took = << Next_r >>,
                       !.avail = TRUE,
                       !.all = @ \o Consumed]
     \/ /\ hcall.timer
        /\ hcall' = [hcall EXCEPT !.ph = "done", !.ret = OkResult,
                                  !.avail = hs.r /= << >>,
                                  !.quiet = Arrived]
        /\ UNCHANGED hs
  /\ UNCHANGED feed
  /\ WsFrame

\* tokio::select! { _ = ws.recv() => { return Err(test); },
\*                  _ = sleep(..) => (), };
\* the branches are polled in random order and the first that is ready is
\* taken; the other future is dropped
WsRaceSelect ==
  /\ hcall.ph = "pending"
  /\ hcall.op = "race"
  /\ \/ /\ hs.r /= << >>
        /\ hs' = [hs EXCEPT !.r = After_r]
        /\ hcall' = [hcall EXCEPT
                       !.ph = "done",
                       !.ret = ErrResult(test),
                       !.took = << Next_r >>,
                       !.avail = TRUE,
                       !.all = @ \o Consumed]
     \/ /\ hcall.timer
        /\ hcall' = [hcall EXCEPT !.ph = "done", !.ret = OkResult,
                                  !.avail = hs.r /= << >>,
                                  !.quiet = Arrived]
        /\ UNCHANGED hs
  /\ UNCHANGED feed
  /\ WsFrame

\* the call returns to the script
WsReturn ==
  /\ hcall.ph = "done"
  /\ hcall' = [NoCall EXCEPT !.all = hcall.all, !.stream = hcall.stream,
                             !.quiet = IF hcall.op = "race" THEN hcall.quiet
                                                            ELSE -1]
  /\ UNCHANGED << hs, feed >>
  /\ WsFrame

WsNext ==
  \/ WsArrive
  \/ WsAssignTest
  \/ WsCall
  \/ WsRecvReady
  \/ WsRaceTimer
  \/ WsRaceSelect
  \/ WsReturn

WsSpec == WsInit /\ [][WsNext]_vars

\* ------------------------------------------------------------------------
\* Tests (2,1)-(2,6) of validate_19 against a server: who is in which
\* room, what each connection has been sent, and the view counter.  The
\* server may deviate: deliver a message to a connection of another room,
\* fail to deliver it to a member, or ignore a reset.
\* ------------------------------------------------------------------------
RoomScript == S23_19_Tweets \o S23_19_Rooms

\* the room in the URL of the k-th WS::new (lines 1931, 1954-1957, 2010)
ConnRooms == << 1, 44, 55, 55, 44, 55 >>

\* the user in the URL of each connection
UserOf(h) ==
  CASE h = "elon" -> "elonmusk"
    [] h = "a1" -> "annifrid"
    [] h = "a2" -> "agnetha"
    [] h = "b1" -> "bjorn"
    [] OTHER -> "benny"

\* the k-th comparison of a response: the status of reset() (-1), or
\* ensure_views(v) (lines 1927-1928, 1936, 1947, 1952-1953, 1999, 2007,
\* 2034)
ViewsExpected == << -1, 0, 1, 1, -1, 0, 12, 13, 18 >>

CountOps(kind, i) == Cardinality({j \in 1..i : RoomScript[j].k = kind})
RoomOp == RoomScript[spc]
RoomAt(k) ==
  /\ ver = "cch23"
  /\ spc <= Len(RoomScript)
  /\ result.st /= "Err"
  /\ RoomOp.k = k
CheckNo(i) == ViewsExpected[CountOps("Ck", i)]

\* the tweet of test (2,3) is longer than 128 characters
TooLong(m) == m = "s_long"

RoomInit ==
  /\ ver = "cch23"
  /\ number = 19
  /\ rpc = "validate"
  /\ vpc = "script"
  /\ spc = 1
  /\ test = <<1, 3>>
  /\ result = NoResult
  /\ io = "none"
  /\ blocked = FALSE
  /\ yielded = FALSE
  /\ mustFire = FALSE
  /\ elapsed = FALSE
  /\ chan = << >>
  /\ events = << >>
  /\ src = << >>
  /\ winner = "none"
  /\ tcTasks = << >>
  /\ stepsRun = 0
  /\ failedAt = 0
  /\ lateSuspends = 0
  /\ lateAt = [vpc |-> "none", spc |-> 0, n |-> 0]
  /\ firedAt = -1
  /\ httpUrl = TRUE
  /\ ws = [h \in WsNames |-> NoHarness]
  /\ wio = "none"
  /\ wk = [i \in Workers |-> NoWorker]
  /\ joinq = << >>
  /\ joined = << >>
  /\ doneOrder = << >>
  /\ wsUsers = [h \in WsNames |-> {}]
  /\ hs = [test |-> <<0, 0>>, r |-> << >>]
  /\ feed = << >>
  /\ hcall = NoCall
  /\ rx = NoPrinter
  /\ mn = NoMain
  /\ \E md \in {"echo", "noEcho"}, v \in {0, 1} :
       srv = [NoServer EXCEPT !.mode = md, !.views = v]

RoomFrame ==
  UNCHANGED << ver, number, rpc, vpc, io, blocked, yielded, mustFire,
               elapsed, chan, events, src, winner, hist, lateSuspends,
               lateAt, httpUrl, wio, wk, joinq, joined, doneOrder, wsUsers,
               hVars, rx, mn >>

RoomFails(tt) == result' = ErrResult(tt) /\ UNCHANGED spc
RoomGoes == spc' = spc + 1 /\ UNCHANGED result

\* test = (a, b);
RoomSetTest ==
  /\ RoomAt("St")
  /\ test' = <<RoomOp.a, RoomOp.b>>
  /\ RoomGoes
  /\ UNCHANGED << ws, srv >>
  /\ RoomFrame

\* the request of reset() or of ensure_views(v); POST /19/reset sets the
\* view counter to 0, unless the server ignores it
RoomRequest ==
  /\ RoomAt("Io")
  /\ IF RoomScript[spc + 1].k = "Ck" /\ CheckNo(spc + 1) = -1
     THEN \E kept \in BOOLEAN :
            /\ kept => srv.faults < MaxFaults
            /\ LET v == IF kept THEN srv.views ELSE 0
               IN srv' = [srv EXCEPT
                            !.views = v,
                            !.faults = IF kept THEN @ + 1 ELSE @,
                            !.ignored = @ \/ kept,
                            !.after = Append(@, [at |-> spc, test |-> test,
                                                 board |-> v, seed |-> 0])]
     ELSE UNCHANGED srv
  /\ RoomGoes
  /\ UNCHANGED << test, ws >>
  /\ RoomFrame

\* if res.status() != StatusCode::OK / if text != v.to_string()
RoomCheck ==
  /\ RoomAt("Ck")
  /\ IF CheckNo(spc) = -1 \/ srv.views = CheckNo(spc)
     THEN RoomGoes
     ELSE RoomFails(test)
  /\ UNCHANGED << test, ws, srv >>
  /\ RoomFrame

\* sleep(Duration::from_millis(10)).await;
RoomSleep ==
  /\ RoomAt("Sl")
  /\ RoomGoes
  /\ UNCHANGED << test, ws, srv >>
  /\ RoomFrame

\* WS::new(test, ".../19/ws/room/<room>/user/<user>")
RoomConnect ==
  /\ RoomAt("Wn")
  /\ ws' = [ws EXCEPT ![RoomOp.h] = [st |-> "open", test |-> test]]
  /\ srv' = [srv EXCEPT !.room[RoomOp.h] = ConnRooms[CountOps("Wn", spc)],
                        !.inbox[RoomOp.h] = << >>]
  /\ RoomGoes
  /\ UNCHANGED test
  /\ RoomFrame

\* the connections the server is to deliver a tweet of connection h to:
\* the open connections of h's room, the sender's own among them
Members(h) ==
  {c \in WsNames : ws[c].st = "open" /\ srv.room[c] = srv.room[h]}
Outsiders(h) ==
  {c \in WsNames : ws[c].st = "open" /\ srv.room[c] /= srv.room[h]}
Receivers(h, m) ==
  IF TooLong(m) THEN {}
  ELSE IF srv.mode = "echo" THEN Members(h) ELSE Members(h) \ {h}

Deliver(h, m, D, leak, fault) ==
  srv' = [srv EXCEPT
            !.inbox = [c \in WsNames |->
                         IF c \in D
                         THEN Append(srv.inbox[c],
                                TextFrame(to_string(UserMessage(UserOf(h), m))))
                         ELSE srv.inbox[c]],
            !.views = @ + Cardinality(D),
            !.faults = @ + (IF fault THEN 1 ELSE 0),
            !.leaked = @ \/ leak]

\* h.send_tweet(m).await?; the server broadcasts the tweet and counts one
\* view for each connection it is delivered to
RoomSend ==
  /\ RoomAt("Ws")
  /\ LET h == RoomOp.h
         m == RoomOp.m.c.message
     IN \/ Deliver(h, m, Receivers(h, m), FALSE, FALSE)
        \/ /\ srv.faults < MaxFaults
           /\ \E x \in Outsiders(h) :
                Deliver(h, m, Receivers(h, m) \cup {x}, TRUE, TRUE)
        \/ /\ srv.faults < MaxFaults
           /\ \E y \in Receivers(h, m) :
                Deliver(h, m, Receivers(h, m) \ {y}, FALSE, TRUE)
  /\ RoomGoes
  /\ UNCHANGED << test, ws >>
  /\ RoomFrame

\* variant: a receive that finds nothing is skipped
RoomRecv_SkipsWhenEmpty ==
  /\ RoomAt("Wj")
  /\ IF srv.inbox[RoomOp.h] = << >>
     THEN RoomGoes /\ UNCHANGED srv
     ELSE /\ srv' = [srv EXCEPT !.inbox[RoomOp.h] = Tail(@)]
          /\ LET r == WS_recv_json(Head(srv.inbox[RoomOp.h]), RoomOp.e.c,
                                   ws[RoomOp.h].test)
             IN IF r.st = "Ok" THEN RoomGoes ELSE RoomFails(r.tt)
  /\ UNCHANGED << test, ws >>
  /\ RoomFrame

\* h.recv_json(&json!({"user": u, "message": m})).await?; it waits until
\* a frame has arrived
RoomRecv ==
  /\ RoomAt("Wj")
  /\ srv.inbox[RoomOp.h] /= << >>
  /\ srv' = [srv EXCEPT !.inbox[RoomOp.h] = Tail(@)]
  /\ LET r == WS_recv_json(Head(srv.inbox[RoomOp.h]), RoomOp.e.c,
                           ws[RoomOp.h].test)
     IN IF r.st = "Ok" THEN RoomGoes ELSE RoomFails(r.tt)
  /\ UNCHANGED << test, ws >>
  /\ RoomFrame

\* select! { _ = h.recv() => { return Err(test); }, _ = sleep(1 s) => () }
\* what the server sent has arrived long before the second is over
RoomSilence ==
  /\ RoomAt("Wx")
  /\ IF srv.inbox[RoomOp.h] = << >>
     THEN RoomGoes /\ UNCHANGED srv
     ELSE /\ RoomFails(test)
          /\ srv' = [srv EXCEPT !.inbox[RoomOp.h] = Tail(@)]
  /\ UNCHANGED << test, ws >>
  /\ RoomFrame

\* h.close().await?;
RoomClose ==
  /\ RoomAt("Wc")
  /\ ws' = [ws EXCEPT ![RoomOp.h].st = "closed"]
  /\ RoomGoes
  /\ UNCHANGED << test, srv >>
  /\ RoomFrame

RoomNext ==
  \/ RoomSetTest
  \/ RoomRequest
  \/ RoomCheck
  \/ RoomSleep
  \/ RoomConnect
  \/ RoomSend
  \/ RoomRecv
  \/ RoomSilence
  \/ RoomClose

RoomSpec == RoomInit /\ [][RoomNext]_vars

\* ------------------------------------------------------------------------
\* Test (2,7) of validate_19 against the same server, after tests
\* (2,1)-(2,6): NumWorkers connections in room 1, each sending NumPhrases
\* phrases that no connection ever reads, and the view counter.  Every
\* phrase is at most 128 characters long (lines 2041-2240).
\* ------------------------------------------------------------------------
LoadOp == S23_19_Workers[spc - Len(RoomScript)]
LoadAt(k) ==
  /\ ver = "cch23"
  /\ spc > Len(RoomScript)
  /\ spc <= Len(RoomScript) + Len(S23_19_Workers)
  /\ result.st = "none"
  /\ LoadOp.k = k
LoadChecks(i) ==
  Cardinality({j \in 1..(i - Len(RoomScript)) : S23_19_Workers[j].k = "Ck"})

\* ensure_views(80000) of line 2276 holds for the 20 workers of line 2245
\* and the 200 phrases of lines 2041-2240; with NumWorkers workers and
\* NumPhrases phrases the expected number is in the same proportion
ViewsAfterLoad ==
  (80000 * NumWorkers * NumPhrases * NumWorkers) \div (20 * 200 * 20)

\* the comparisons of test (2,7): the status of reset() (-1) and the two
\* ensure_views (lines 2037-2038, 2276)
LoadExpected == << -1, 0, ViewsAfterLoad >>

LoadFrame ==
  UNCHANGED << ver, number, rpc, vpc, io, blocked, yielded, mustFire,
               elapsed, winner, stepsRun, failedAt, firedAt, lateSuspends,
               lateAt, httpUrl, wio, wsUsers, hVars, rx, mn >>

\* test = (2, 7);
LoadSetTest ==
  /\ LoadAt("St")
  /\ test' = <<LoadOp.a, LoadOp.b>>
  /\ RoomGoes
  /\ UNCHANGED << ws, wk, joinq, joined, doneOrder, srv, tcTasks, chan,
                  events, src >>
  /\ LoadFrame

\* the request of reset() or of ensure_views(v)
LoadRequest ==
  /\ LoadAt("Io")
  /\ srv' = IF S23_19_Workers[spc + 1 - Len(RoomScript)].k = "Ck"
               /\ LoadExpected[LoadChecks(spc + 1)] = -1
            THEN [srv EXCEPT !.views = 0]
            ELSE srv
  /\ RoomGoes
  /\ UNCHANGED << test, ws, wk, joinq, joined, doneOrder, tcTasks, chan,
                  events, src >>
  /\ LoadFrame

\* if res.status() != StatusCode::OK / if text != v.to_string()
LoadCheck ==
  /\ LoadAt("Ck")
  /\ LET v == LoadExpected[LoadChecks(spc)]
     IN IF v = -1 \/ srv.views = v THEN RoomGoes ELSE RoomFails(test)
  /\ UNCHANGED << test, ws, wk, joinq, joined, doneOrder, srv, tcTasks,
                  chan, events, src >>
  /\ LoadFrame

\* let mut user = WS::new(test, ".../19/ws/room/1/user/<i>").await?;
LoadConnect ==
  /\ LoadAt("Wn")
  /\ ws' = [ws EXCEPT ![LoadOp.h] = [st |-> "open", test |-> test]]
  /\ srv' = [srv EXCEPT !.room[LoadOp.h] = 1]
  /\ RoomGoes
  /\ UNCHANGED << test, wk, joinq, joined, doneOrder, tcTasks, chan,
                  events, src >>
  /\ LoadFrame

\* for t in tasks.into_iter() { joins.spawn(t); }
LoadSpawn ==
  /\ LoadAt("Sp")
  /\ wk' = [wk EXCEPT ![LoadOp.a].pc = "send"]
  /\ RoomGoes
  /\ UNCHANGED << test, ws, joinq, joined, doneOrder, srv, tcTasks, chan,
                  events, src >>
  /\ LoadFrame

\* the script has not returned: its JoinSet has not aborted the workers
LoadRuns == ver = "cch23" /\ spc > Len(RoomScript) /\ result.st = "none"

\* variant: the server counts a view for every member but the sender
LoadTweet_OthersOnly(i) ==
  /\ LoadRuns
  /\ wk[i].pc = "send"
  /\ \E ok \in BOOLEAN :
       IF ~ok
       THEN /\ WorkerEnds(i, ErrResult(ws[UserName(i)].test))
            /\ UNCHANGED srv
       ELSE /\ srv' = [srv EXCEPT !.views =
                         @ + Cardinality(Members(UserName(i)) \ {UserName(i)})]
            /\ IF i = 0 /\ wk[i].ii = ViewsIdx
               THEN WorkerToViews(i)
               ELSE WorkerAdvance(i)
  /\ UNCHANGED << test, result, spc, ws, joined, tcTasks, chan, events, src >>
  /\ LoadFrame

\* user.send_tweet(*p).await?; sleep(Duration::from_millis(1)).await;
\* the server broadcasts the phrase and counts one view for each
\* connection it is delivered to
LoadTweet(i) ==
  /\ LoadRuns
  /\ wk[i].pc = "send"
  /\ \E ok \in BOOLEAN :
       IF ~ok
       THEN /\ WorkerEnds(i, ErrResult(ws[UserName(i)].test))
            /\ UNCHANGED srv
       ELSE /\ srv' = [srv EXCEPT !.views =
                         @ + Cardinality(Receivers(UserName(i), "phrase"))]
            /\ IF i = 0 /\ wk[i].ii = ViewsIdx
               THEN WorkerToViews(i)
               ELSE WorkerAdvance(i)
  /\ UNCHANGED << test, result, spc, ws, joined, tcTasks, chan, events, src >>
  /\ LoadFrame

\* if i == 0 && ii == 100 { client.get(views_url).send().await ... ?; }
LoadViews ==
  /\ LoadRuns
  /\ wk[0].pc = "views"
  /\ \E out \in {"sent", "failed", "panic"} :
       CASE out = "sent" -> WorkerAdvance(0)
         [] out = "failed" -> WorkerEnds(0, ErrResult(test))
         [] OTHER -> WorkerEnds(0, JoinError)
  /\ UNCHANGED << test, result, spc, ws, joined, srv, tcTasks, chan, events,
                  src >>
  /\ LoadFrame

\* sleep(Duration::from_secs(2)).await; user.close().await?; Ok(())
\* the two seconds are the time the workers that were spawned with this
\* one have to send their remaining phrases (a phrase a millisecond)
LoadClose(i) ==
  /\ LoadRuns
  /\ wk[i].pc = "close"
  /\ \A j \in Workers : wk[j].pc \in {"close", "done"}
  /\ ws' = [ws EXCEPT ![UserName(i)].st = "closed"]
  /\ \E ok \in BOOLEAN :
       WorkerEnds(i, IF ok THEN OkResult ELSE ErrResult(ws[UserName(i)].test))
  /\ UNCHANGED << test, result, spc, srv, joined, tcTasks, chan, events,
                  src >>
  /\ LoadFrame

\* while let Some(Ok(r)) = joins.join_next().await { r?; }
LoadJoin ==
  /\ LoadAt("Jn")
  /\ joinq /= << >> \/ Len(joined) = NumWorkers
  /\ IF joinq = << >>
     THEN RoomGoes /\ UNCHANGED << joinq, joined >>
     ELSE /\ joinq' = Tail(joinq)
          /\ joined' = Append(joined, Head(joinq))
          /\ CASE wk[Head(joinq)].res.st = "Err" ->
                    RoomFails(wk[Head(joinq)].res.tt)
               [] wk[Head(joinq)].res.st = "Panic" -> RoomGoes
               [] OTHER -> UNCHANGED << spc, result >>
  /\ UNCHANGED << test, ws, wk, doneOrder, srv, tcTasks, chan, events, src >>
  /\ LoadFrame

\* sleep(Duration::from_millis(100)).await;
LoadSleep ==
  /\ LoadAt("Sl")
  /\ RoomGoes
  /\ UNCHANGED << test, ws, wk, joinq, joined, doneOrder, srv, tcTasks, chan,
                  events, src >>
  /\ LoadFrame

\* tx.send((false, 500).into()).await.unwrap(); Ok(())
LoadCompleted ==
  /\ LoadAt("Tc")
  /\ HasCap
  /\ Emit(TaskCompletedEv(LoadOp.f, LoadOp.b), "script")
  /\ tcTasks' = Append(tcTasks, test[1])
  /\ spc' = spc + 1
  /\ result' = OkResult
  /\ UNCHANGED << ver, number, rpc, vpc, test, io, blocked, yielded, mustFire,
                  elapsed, winner, stepsRun, failedAt, firedAt, lateSuspends,
                  lateAt, httpUrl, wio, wsUsers, hVars, mn >>
  /\ UNCHANGED << ws, wk, joinq, joined, doneOrder, srv, rx >>

LoadNext ==
  \/ LoadSetTest
  \/ LoadRequest
  \/ LoadCheck
  \/ LoadConnect
  \/ LoadSpawn
  \/ \E i \in Workers : LoadTweet(i)
  \/ LoadViews
  \/ \E i \in Workers : LoadClose(i)
  \/ LoadJoin
  \/ LoadSleep
  \/ LoadCompleted

ViewsSpec == RoomInit /\ [][RoomNext \/ LoadNext]_vars

\* ------------------------------------------------------------------------
\* cch24 validate_12 against a server: the board, the random sequence and
\* the reset endpoint.  A board is identified by the number of pieces on
\* it, a random board by its position in the sequence since the seed was
\* set.  The server may deviate by ignoring a reset.
\*   Rs        client.post(reset_url).send().await          (POST /12/reset)
\*   Gb        client.get(board_url).send().await           (GET /12/board)
\*   Rg        client.get(url).send().await          (GET /12/random-board)
\*   Pl(a, b)  place(..).await?, answered with status a by a server whose
\*             board holds b pieces
\*   Cs(a)     assert_status!(res, test, a)
\*   Cb(n)     assert_text!(res, test, <a board of n pieces>)
\*   Cr(n)     assert_text_starts_with!(res, test, <n-th random board>)
\* ------------------------------------------------------------------------
Rs == Op("Rs", 0, 0, FALSE)
Gb == Op("Gb", 0, 0, FALSE)
Rg == Op("Rg", 0, 0, FALSE)
Pl(a, b) == Op("Pl", a, b, FALSE)
Cs(a) == Op("Cs", a, 0, FALSE)
Cb(n) == Op("Cb", n, 0, FALSE)
Cr(n) == Op("Cr", n, 0, FALSE)

\* cch24 validate_12, lines 1081-1511 (170 operations)
S24_12 ==
  << St(1, 1), Rs, Cs(200), Cb(0), St(1, 2), Gb, Cs(200), Cb(0),
     Tc(FALSE, 0), Sv, St(2, 1), Rs, Cs(200), Cb(0), Pl(200, 0), Cs(200),
     Cb(1), Pl(200, 1), Cs(200), Cb(2), Pl(200, 2), Cs(200), Cb(3),
     Pl(200, 3), Cs(200), Cb(4), Pl(503, 4), Cs(503), Cb(4), Pl(503, 4),
     Cs(503), Cb(4), Gb, Cs(200), Cb(4), St(2, 2), Rs, Cs(200), Cb(0),
     Pl(200, 0), Cs(200), Pl(200, 1), Cs(200), Pl(200, 2), Cs(200),
     Pl(200, 3), Cs(200), Pl(200, 4), Cs(200), Pl(200, 5), Cs(200),
     Pl(200, 6), Cs(200), Pl(200, 7), Cs(200), Pl(200, 8), Cs(200),
     Pl(200, 9), Cs(200), Cb(10), Sl, St(2, 3), Rs, Cs(200), Cb(0),
     Pl(200, 0), Cs(200), Pl(200, 1), Cs(200), Pl(200, 2), Cs(200),
     Pl(200, 3), Cs(200), Pl(200, 4), Cs(200), Pl(200, 5), Cs(200),
     Pl(200, 6), Cs(200), Pl(200, 7), Cs(200), Pl(200, 8), Cs(200),
     Pl(200, 9), Cs(200), Pl(200, 10), Cs(200), Pl(200, 11), Cs(200),
     Pl(200, 12), Cs(200), Pl(200, 13), Cs(200), Pl(200, 14), Cs(200),
     Pl(200, 15), Cs(200), Cb(16), Sl, St(2, 4), Rs, Cs(200), Cb(0),
     Pl(200, 0), Cs(200), Pl(200, 1), Cs(200), Pl(200, 2), Cs(200),
     Pl(200, 3), Cs(200), Pl(200, 4), Cs(200), Pl(200, 5), Cs(200),
     Pl(200, 6), Cs(200), Pl(200, 7), Cs(200), Pl(200, 8), Cs(200),
     Pl(200, 9), Cs(200), Pl(200, 10), Cs(200), Pl(200, 11), Cs(200),
     Cb(12), St(2, 5), Pl(503, 12), Cs(503), Rs, Cs(200), Pl(400, 0),
     Cs(400), Pl(400, 0), Cs(400), Pl(400, 0), Cs(400), Pl(400, 0),
     Cs(400), Pl(400, 0), Cs(400), Tc(TRUE, 0), Sv, St(3, 1), Rs, Cs(200),
     Rg, Cs(200), Cr(1), Rg, Cs(200), Cr(2), Rg, Cs(200), Cr(3), Rg,
     Cs(200), Cr(4), Rg, Cs(200), Cr(5), Rs, Cs(200), Rg, Cs(200), Cr(1),
     Tc(FALSE, 75), Sv >>

\* cells of the 4x4 board
BoardCells == 16

BoardOp == S24_12[spc]
BoardAt(K) ==
  /\ ver = "cch24"
  /\ spc <= Len(S24_12)
  /\ result.st /= "Err"
  /\ BoardOp.k \in K

BoardInit ==
  /\ ver = "cch24"
  /\ number = "12"
  /\ rpc = "validate"
  /\ vpc = "script"
  /\ spc = 1
  /\ test = <<0, 0>>
  /\ result = NoResult
  /\ io = "none"
  /\ blocked = FALSE
  /\ yielded = FALSE
  /\ mustFire = FALSE
  /\ elapsed = FALSE
  /\ chan = << >>
  /\ events = << >>
  /\ src = << >>
  /\ winner = "none"
  /\ tcTasks = << >>
  /\ stepsRun = 0
  /\ failedAt = 0
  /\ lateSuspends = 0
  /\ lateAt = [vpc |-> "none", spc |-> 0, n |-> 0]
  /\ firedAt = -1
  /\ httpUrl = TRUE
  /\ ws = [h \in WsNames |-> NoHarness]
  /\ wio = "none"
  /\ wk = [i \in Workers |-> NoWorker]
  /\ joinq = << >>
  /\ joined = << >>
  /\ doneOrder = << >>
  /\ wsUsers = [h \in WsNames |-> {}]
  /\ hs = [test |-> <<0, 0>>, r |-> << >>]
  /\ feed = << >>
  /\ hcall = NoCall
  /\ rx = NoPrinter
  /\ mn = NoMain
  /\ \E b \in {0, 1}, s \in {0, 1} :
       srv = [NoServer EXCEPT !.board = b, !.seed = s]

BoardFrame ==
  UNCHANGED << ver, number, rpc, vpc, io, blocked, yielded, mustFire,
               elapsed, chan, src, winner, hist, lateSuspends,
               lateAt, httpUrl, ws, wio, wk, joinq, joined, doneOrder,
               wsUsers, hVars, rx, mn >>

\* test = (a, b);
BoardSetTest ==
  /\ BoardAt({"St"})
  /\ test' = <<BoardOp.a, BoardOp.b>>
  /\ RoomGoes
  /\ UNCHANGED << srv, events >>
  /\ BoardFrame

\* a request that gets no response: .send().await.map_err(|_| test)?
BoardLost ==
  /\ BoardAt({"Rs", "Gb", "Rg", "Pl"})
  /\ RoomFails(test)
  /\ UNCHANGED << test, srv, events >>
  /\ BoardFrame

\* POST /12/reset: the board is emptied and the random sequence starts
\* again, and the response shows the board; or the server leaves both as
\* they are
BoardReset ==
  /\ BoardAt({"Rs"})
  /\ \E kept \in BOOLEAN :
       /\ kept => srv.faults < MaxFaults
       /\ LET b == IF kept THEN srv.board ELSE 0
              s == IF kept THEN srv.seed ELSE 0
          IN srv' = [srv EXCEPT
                       !.board = b, !.seed = s,
                       !.faults = IF kept THEN @ + 1 ELSE @,
                       !.body = [status |-> 200, board |-> b, rand |-> 0],
                       !.after = Append(@, [at |-> spc, test |-> test,
                                            board |-> b, seed |-> s])]
  /\ RoomGoes
  /\ UNCHANGED << test, events >>
  /\ BoardFrame

\* GET /12/board
BoardGet ==
  /\ BoardAt({"Gb"})
  /\ srv' = [srv EXCEPT
               !.body = [status |-> 200, board |-> srv.board, rand |-> 0]]
  /\ RoomGoes
  /\ UNCHANGED << test, events >>
  /\ BoardFrame

\* GET /12/random-board: the next board of the random sequence
BoardRandom ==
  /\ BoardAt({"Rg"})
  /\ srv' = [srv EXCEPT
               !.seed = @ + 1,
               !.body = [status |-> 200, board |-> 0, rand |-> srv.seed + 1]]
  /\ RoomGoes
  /\ UNCHANGED << test, events >>
  /\ BoardFrame

\* POST /12/place/<team>/<column>: on the board the script has played the
\* answer is the one of the game; on any other board the piece is placed
\* or the request is refused
BoardPlace ==
  /\ BoardAt({"Pl"})
  /\ \E st \in {200, 400, 503} :
       /\ srv.board = BoardOp.b => st = BoardOp.a
       /\ st = 200 => srv.board < BoardCells
       /\ LET b == IF st = 200 THEN srv.board + 1 ELSE srv.board
          IN srv' = [srv EXCEPT
                       !.board = b,
                       !.body = [status |-> st, board |-> b, rand |-> 0]]
  /\ RoomGoes
  /\ UNCHANGED << test, events >>
  /\ BoardFrame

\* assert_status!(res, test, expected)
BoardStatus ==
  /\ BoardAt({"Cs"})
  /\ IF srv.body.status = BoardOp.a THEN RoomGoes ELSE RoomFails(test)
  /\ UNCHANGED << test, srv, events >>
  /\ BoardFrame

\* variant of assert_text! whose comparison never fails
BoardText_Lenient ==
  /\ BoardAt({"Cb", "Cr"})
  /\ RoomGoes
  /\ UNCHANGED << test, srv, events >>
  /\ BoardFrame

\* assert_text!(res, test, expected) and
\* assert_text_starts_with!(res, test, expected)
BoardText ==
  /\ BoardAt({"Cb", "Cr"})
  /\ IF \/ BoardOp.k = "Cb" /\ srv.body.board = BoardOp.a
        \/ BoardOp.k = "Cr" /\ srv.body.rand = BoardOp.a
     THEN RoomGoes
     ELSE RoomFails(test)
  /\ UNCHANGED << test, srv, events >>
  /\ BoardFrame

\* tokio::time::sleep(Duration::from_millis(1000)).await;
BoardSleep ==
  /\ BoardAt({"Sl"})
  /\ RoomGoes
  /\ UNCHANGED << test, srv, events >>
  /\ BoardFrame

\* tx.send((f, b).into()).await.unwrap(); tx.send(Save).await.unwrap();
BoardEmit ==
  /\ BoardAt({"Tc", "Sv"})
  /\ events' = Append(events, IF BoardOp.k = "Tc"
                              THEN TaskCompletedEv(BoardOp.f, BoardOp.b)
                              ELSE SaveEv)
  /\ RoomGoes
  /\ UNCHANGED << test, srv >>
  /\ BoardFrame

BoardNext ==
  \/ BoardSetTest
  \/ BoardLost
  \/ BoardReset
  \/ BoardGet
  \/ BoardRandom
  \/ BoardPlace
  \/ BoardStatus
  \/ BoardText
  \/ BoardSleep
  \/ BoardEmit

\* either script against its server
ResetSpec == (RoomInit \/ BoardInit) /\ [][RoomNext \/ BoardNext]_vars

\* the methods of an existing harness
HarnessCalls == {"Ws", "Wr", "Wj", "Wc"}
MinOf(S, d) == IF S = {} THEN d ELSE CHOOSE x \in S : \A y \in S : x <= y
\* the script's test at the last `h.test = test` or WS::new of harness h
\* before operation i, and at the last WS::new alone
FieldAt(s, h, i) ==
  LET j == MaxOf({x \in 1..(i - 1) : s[x].k \in {"Wn", "Wt"} /\ s[x].h = h})
  IN IF j = 0 THEN <<0, 0>> ELSE LabelAt(s, j)
BornAt(s, h, i) ==
  LET j == MaxOf({x \in 1..(i - 1) : s[x].k = "Wn" /\ s[x].h = h})
  IN IF j = 0 THEN <<0, 0>> ELSE LabelAt(s, j)
\* whether the script, at operation i, is past a WS::new of harness h and
\* not past a close of it
OpenedAt(s, h, i) ==
  LET j == MaxOf({x \in 1..(i - 1) : s[x].k \in {"Wn", "Wc"} /\ s[x].h = h})
  IN j > 0 /\ s[j].k = "Wn"
\* the races of recv against a sleep that directly follow a send on the
\* same harness; the close of that harness after it; whether a send and
\* then a receive on the harness lie in between
Silences(s) ==
  {j \in DOMAIN s : /\ s[j].k = "Wx"
                    /\ j > 1
                    /\ s[j - 1].k = "Ws"
                    /\ s[j - 1].h = s[j].h}
CloseAfter(s, j) ==
  MinOf({c \in (j + 1)..Len(s) : s[c].k = "Wc" /\ s[c].h = s[j].h}, Len(s) + 1)
Usable(s, j) ==
  \E a, b \in (j + 1)..(CloseAfter(s, j) - 1) :
    /\ a < b
    /\ s[a].k = "Ws" /\ s[a].h = s[j].h
    /\ s[b].k \in {"Wr", "Wj"} /\ s[b].h = s[j].h

\* tables derived from the scripts: the label of every operation, the
\* number of Io / Ck / Sl operations before it, and for each k the last
\* step that belongs to tasks 1..k
Derived(s) ==
  [label |-> [i \in DOMAIN s |-> LabelAt(s, i)],
   before |-> [i \in DOMAIN s |->
                 Cardinality({j \in 1..(i - 1) : IsStep(s[j]) \/ s[j].k = "Sl"})],
   lastStep |-> [k \in 1..Cardinality(TcOps(s)) |->
                   MaxOf({j \in DOMAIN s :
                            IsStep(s[j]) /\ LabelAt(s, j)[1] <= k})],
   field |-> [i \in DOMAIN s |->
                IF s[i].k \in HarnessCalls THEN FieldAt(s, s[i].h, i)
                                           ELSE <<0, 0>>],
   fieldOf |-> [i \in 1..(Len(s) + 1) |->
                  [h \in WsNames |-> FieldAt(s, h, i)]],
   born |-> [i \in DOMAIN s |->
               IF s[i].k \in HarnessCalls THEN BornAt(s, s[i].h, i)
                                          ELSE <<0, 0>>],
   silenceGap |-> {CloseAfter(s, j) : j \in {x \in Silences(s) : ~Usable(s, x)}},
   opened |-> [i \in 1..(Len(s) + 1) |->
                 {h \in WsNames : OpenedAt(s, h, i)}],
   join |-> MaxOf({j \in DOMAIN s : s[j].k = "Jn"}),
   tcs |-> Cardinality(TcOps(s)),
   tcThenSave |-> \A j \in TcOps(s) : j < Len(s) => s[j + 1].k = "Sv"]
DerivedTable ==
  [v \in DOMAIN ScriptTable |->
     [nm \in DOMAIN ScriptTable[v] |-> Derived(ScriptTable[v][nm])]]
theDerived == DerivedTable[ver][ScriptName(ver, number)]

\* ------------------------------------------------------------------------
\* C1  Every invocation of run terminates having emitted
\*     StateChanged(Done), whatever the outcome of the script and whatever
\*     challenge identifier was passed.
\* ------------------------------------------------------------------------
C1_DoneWhateverIdentifier ==
  rpc \in {"returned", "panicked"} => DoneEmitted

\* ------------------------------------------------------------------------
\* C2  In one invocation of run StateChanged(Done) is emitted at most once,
\*     in every interleaving of the script branch and the timer branch.
\* ------------------------------------------------------------------------
C2_DoneAtMostOnce == Cardinality(Indices(IsDone)) <= 1

\* ------------------------------------------------------------------------
\* C3  run with an identifier outside SUPPORTED_CHALLENGES emits exactly
\*     one LogLine, no StateChanged event and no other event.
\* ------------------------------------------------------------------------
C3_UnsupportedOnlyLogLine ==
  ~Supported(ver, number) =>
    /\ \A i \in DOMAIN events : events[i].type = "LogLine"
    /\ rpc = "returned" => Len(events) = 1

\* ------------------------------------------------------------------------
\* C4  The stream of a run contains exactly one StateChanged(Running): it
\*     is the first event, Save follows it immediately, and both precede
\*     every event of validate and of the script.
\* ------------------------------------------------------------------------
C4_RunningThenSaveFirst ==
  /\ rpc /= "sendRunning" => Cardinality(Indices(IsRunning)) = 1
  /\ Len(events) >= 1 => events[1] = StateEv("Running")
  /\ vpc /= "notStarted" => Len(events) >= 2
  /\ Len(events) >= 2 => events[2] = SaveEv
  /\ \A i \in DOMAIN events : src[i] /= "run" => i > 2

C4_Witness ==
  /\ rpc = "returned"
  /\ \E i \in DOMAIN events : src[i] = "script"

\* ------------------------------------------------------------------------
\* C5  When the timer wins, the events sent from then on are exactly
\*     LogLine("Timed out"), StateChanged(Done), Save, in this order, and
\*     the script sends nothing more.
\* ------------------------------------------------------------------------
TimeoutTail == << LogLineEv(TimedOutText), StateEv("Done"), SaveEv >>

C5_TimeoutTail ==
  winner = "timer" =>
    LET tail == SubSeq(events, firedAt + 1, Len(events))
        n == CASE rpc = "toLog" -> 0
               [] rpc = "toDone" -> 1
               [] rpc = "toSave" -> 2
               [] OTHER -> 3
    IN /\ tail = SubSeq(TimeoutTail, 1, n)
       /\ \A i \in DOMAIN events : i > firedAt => src[i] = "timer"
       /\ rpc = "returned" => vpc = "dropped"

C5_Witness ==
  /\ winner = "timer"
  /\ rpc = "returned"
  /\ \E i \in DOMAIN events : IsTaskCompleted(events[i])

C7_TimedOutOnceElapsed ==
  (rpc = "returned" /\ elapsed /\ Supported(ver, number)) => TimedOutEmitted

\* C7 as amended: once the sleep is ready, the script returns Pending to
\* select! at most once; from that Pending on validate does not move and
\* sends nothing, the script branch cannot win, and a finished run shows
\* "Timed out" followed by Done.  (A script that finishes in the poll in
\* which the sleep became ready still wins, without "Timed out".)
C7_PendingAfterDeadlineLoses ==
  /\ lateSuspends <= 1
  /\ lateSuspends = 1 =>
       /\ winner /= "script"
       /\ vpc = "dropped" \/ (vpc = lateAt.vpc /\ spc = lateAt.spc)
       /\ \A i \in DOMAIN events : i > lateAt.n => src[i] = "timer"
       /\ rpc = "returned" =>
            \E i \in Indices(IsTimedOut) : events[i + 1] = StateEv("Done")

C7_Witness ==
  /\ lateSuspends = 1
  /\ rpc = "returned"
  /\ lateAt.vpc = "script"
  /\ TimedOutEmitted

\* ------------------------------------------------------------------------
\* C8  First-failure propagation: the script returns Err with the
\*     TaskTest of the first failing step, runs no step after it, and has
\*     reported exactly the task groups that lie entirely before it.
\* ------------------------------------------------------------------------
C8_FirstFailure ==
  result.st = "Err" =>
    /\ failedAt \in DOMAIN theScript
    /\ IsStep(theScript[failedAt])
    /\ result.tt = theDerived.label[failedAt]
    /\ spc = failedAt
    /\ stepsRun = theDerived.before[failedAt]
    /\ Len(tcTasks) = result.tt[1] - 1
    /\ Cardinality(Indices(IsTaskCompleted)) = result.tt[1] - 1
    /\ vpc \in {"failLog", "sendDone", "sendSave", "returned", "dropped"}

\* ------------------------------------------------------------------------
\* C9  After every completed task the script sends TaskCompleted and then
\*     Save as the very next event, before any later step and before it
\*     returns, also after its last task.
\* ------------------------------------------------------------------------
\* the claim as stated
C9_SaveAfterEveryTask ==
  \A i \in Indices(IsTaskCompleted) :
    /\ i < Len(events) => events[i + 1] = SaveEv
    /\ vpc \in {"sendDone", "sendSave", "returned"} => i < Len(events)

\* C9 as amended: the script sends Save right after TaskCompleted for
\* every task that is not its last, before any later step; after its last
\* task a script may return without Save, and then the next event is
\* StateChanged(Done) of validate.  When the timer wins between the two
\* sends the next event is LogLine("Timed out").
TrailingSave(s) == s /= << >> /\ Last(s).k = "Sv"

C9_SaveAfterInnerTask ==
  /\ theDerived.tcThenSave
  /\ \A i \in Indices(IsTaskCompleted) :
       LET k == Cardinality({h \in Indices(IsTaskCompleted) : h <= i})
           isLast == k = theDerived.tcs
       IN /\ i < Len(events) =>
               \/ events[i + 1] = SaveEv /\ src[i + 1] = "script"
               \/ /\ events[i + 1] = StateEv("Done")
                  /\ src[i + 1] = "validate"
                  /\ isLast /\ ~TrailingSave(theScript)
               \/ events[i + 1] = LogLineEv(TimedOutText) /\ src[i + 1] = "timer"
          /\ (~isLast /\ test[1] > k) =>
               (i < Len(events) /\ events[i + 1] = SaveEv)

C9_Witness ==
  /\ rpc = "returned"
  /\ winner = "script"
  /\ result.st = "Ok"
  /\ ~TrailingSave(theScript)
  /\ Cardinality(Indices(IsTaskCompleted)) = 2

\* ------------------------------------------------------------------------
\* C10 Monotonic task reporting: the k-th TaskCompleted of a run is for
\*     task k and is sent only after every step of tasks 1..k has passed.
\* ------------------------------------------------------------------------
C10_MonotonicTasks ==
  /\ Len(tcTasks) = Cardinality(Indices(IsTaskCompleted))
  /\ \A k \in DOMAIN tcTasks :
       /\ tcTasks[k] = k
       /\ k <= theDerived.tcs
       /\ theDerived.lastStep[k] > 0
       /\ spc > theDerived.lastStep[k]
       /\ failedAt = 0 \/ failedAt > theDerived.lastStep[k]

C10_Witness ==
  /\ ver = "cch23" /\ number = 13
  /\ Len(tcTasks) = 3
  /\ rpc = "returned"

\* ------------------------------------------------------------------------
\* C11 Harness attribution: a failing send, recv_str, recv_json or close
\*     returns the TaskTest that the harness's `test` field holds at the
\*     call, which is the script's test at the last `h.test = test` (or at
\*     WS::new if there was none), not the one the harness was created
\*     with.
\* ------------------------------------------------------------------------
FailedOn(kinds) ==
  /\ result.st = "Err"
  /\ failedAt \in DOMAIN theScript
  /\ theScript[failedAt].k \in kinds

C11_HarnessAttribution ==
  /\ FailedOn(HarnessCalls) => result.tt = theDerived.field[failedAt]
  /\ \A i \in Workers :
       wk[i].res.st = "Err" => wk[i].res.tt = theDerived.label[theDerived.join]

C11_Witness ==
  /\ FailedOn(HarnessCalls)
  /\ theDerived.born[failedAt] = <<1, 1>>
  /\ result.tt = <<1, 3>>
  /\ rpc = "returned"

\* ------------------------------------------------------------------------
\* C12 Every failure of a harness operation in validate_19 is reported
\*     with the TaskTest of the step that triggered it, that is with the
\*     script's test at that step.
\* ------------------------------------------------------------------------
C12_FailureNamesCurrentTest ==
  FailedOn(HarnessCalls \cup {"Wn", "Wx"}) =>
    result.tt = theDerived.label[failedAt]

\* ------------------------------------------------------------------------
\* C15 WS::new(test, url) yields a harness bound to test, or Err(test) on
\*     a connection failure; then no harness exists, the script stops with
\*     that TaskTest and the current task is not reported.
\* ------------------------------------------------------------------------
C15_ConnectFailure ==
  /\ FailedOn({"Wn"}) =>
       /\ result.tt = theDerived.label[failedAt]
       /\ ws[theScript[failedAt].h].st /= "open"
       /\ \A i \in Workers :
            UserName(i) = theScript[failedAt].h => wk[i].pc = "none"
       /\ spc = failedAt
       /\ Len(tcTasks) = result.tt[1] - 1
       /\ Cardinality(Indices(IsTaskCompleted)) = result.tt[1] - 1
  /\ \A h \in WsNames :
       ws[h].st = "open" => ws[h].test = theDerived.fieldOf[spc][h]
  /\ vpc = "script" =>
       \A h \in theDerived.opened[spc] :
         \/ ws[h].st = "open"
         \/ \E i \in Workers : h = UserName(i) /\ wk[i].pc = "done"

C15_Witness ==
  /\ FailedOn({"Wn"})
  /\ theScript[failedAt].h = "elon"
  /\ result.tt = <<2, 2>>
  /\ ws["ws"].st = "closed"
  /\ rpc = "returned"

\* ------------------------------------------------------------------------
\* C17 Silence-assertion scenario: after a message that must not be
\*     answered and the silent second, the script sends a valid message on
\*     the same connection and receives the reply before it closes the
\*     connection; also for the over-long tweet of test (2, 3).
\* ------------------------------------------------------------------------
C17_SilenceThenUsable ==
  \A c \in theDerived.silenceGap : vpc = "script" => spc <= c

\* ------------------------------------------------------------------------
\* C18 In the concurrent section every worker is created, with its own
\*     open connection, before any is spawned, and every worker is spawned
\*     before join_next is awaited or yields a result.
\* ------------------------------------------------------------------------
Spawned(i) == wk[i].pc \notin {"none", "created"}

C18_AllSpawnedBeforeJoin ==
  /\ (\E i \in Workers : Spawned(i)) =>
       \A j \in Workers : wk[j].pc /= "none" /\ ws[UserName(j)].st /= "none"
  /\ (\/ joined /= << >>
      \/ joinq /= << >> /\ spc = theDerived.join
      \/ wio = "pending" /\ spc = theDerived.join) =>
       \A j \in Workers : Spawned(j)

C18_Witness ==
  /\ Len(joined) = NumWorkers
  /\ \A j \in Workers : ws[UserName(j)].st = "closed"
  /\ rpc = "returned"

\* ------------------------------------------------------------------------
\* C19 If a worker returns Err(t), validate_19 returns the Err of the
\*     worker that failed first in completion order; the final view count
\*     is not checked and task 2 is not reported.
\* ------------------------------------------------------------------------
FirstErr(order) ==
  LET E == {k \in DOMAIN order : wk[order[k]].res.st = "Err"}
  IN IF E = {} THEN 0 ELSE CHOOSE k \in E : \A x \in E : k <= x

C19_FirstWorkerError ==
  /\ FailedOn({"Jn"}) =>
       /\ FirstErr(doneOrder) > 0
       /\ joined = SubSeq(doneOrder, 1, FirstErr(doneOrder))
       /\ result = wk[doneOrder[FirstErr(doneOrder)]].res
       /\ spc = failedAt
       /\ Len(tcTasks) = 1
       /\ Cardinality(Indices(IsTaskCompleted)) = 1
  /\ (\E i \in Workers : wk[i].res.st = "Err") =>
       ~(theDerived.join > 0 /\ spc > theDerived.join /\ InScript)

C19_Witness ==
  /\ FailedOn({"Jn"})
  /\ Len(joined) = 2
  /\ Len(doneOrder) = 2
  /\ wk[joined[1]].res = OkResult
  /\ wk[joined[2]].res = ErrResult(<<2, 7>>)
  /\ rpc = "returned"

\* ------------------------------------------------------------------------
\* C20 Harnesses are never shared: each worker sends and closes only on
\*     the harness that was moved into it, no two workers use the same
\*     connection, and the script itself uses no worker's harness.
\* ------------------------------------------------------------------------
C20_HarnessNotShared ==
  \A h \in WsNames :
    /\ Cardinality(wsUsers[h]) <= 1
    /\ \A i \in Workers :
         WorkerName(i) \in wsUsers[h] => h = UserName(i)
    /\ "main" \in wsUsers[h] => \A i \in Workers : h /= UserName(i)

C20_Witness ==
  /\ \A i \in Workers : wsUsers[UserName(i)] = {WorkerName(i)}
  /\ \A i \in Workers : wk[i].pc = "done"

\* ------------------------------------------------------------------------
\* C13 WS::recv returns Ok(text) exactly when the next item of the
\*     connection is a text frame, and Err(current TaskTest) for any other
\*     frame, a connection error or the end of the stream; a call takes
\*     exactly one item, the oldest that was not taken yet.
\* ------------------------------------------------------------------------
CallDone(ops) == hcall.ph = "done" /\ hcall.op \in ops
TheItem == hcall.took[1]

\* the call took the oldest item not taken before, and nothing else; the
\* end of the stream is not an item that can be taken away
TookOneInOrder ==
  /\ Len(hcall.took) = 1
  /\ TheItem = hcall.stream[hcall.before + 1]
  /\ Len(hcall.all) = hcall.before + (IF TheItem.kind = "End" THEN 0 ELSE 1)
  /\ hcall.all \o hs.r \o feed = hcall.stream

C13_RecvTextOnly ==
  CallDone({"recv"}) =>
    /\ TookOneInOrder
    /\ hcall.ret.st = "Ok" <=> TheItem.kind = "Text"
    /\ hcall.ret.st = "Ok" => hcall.text = TheItem.text
    /\ hcall.ret.st /= "Ok" => hcall.ret = ErrResult(hs.test)

C13_Witness ==
  /\ CallDone({"recv"})
  /\ hcall.before = 1
  /\ hcall.all[1].kind = "Binary"
  /\ hcall.ret.st = "Ok"
  /\ hcall.text = Plain("pong")

\* ------------------------------------------------------------------------
\* C14 recv_str(exp) and recv_json(exp) receive one frame and then
\*     compare: Ok iff a text frame arrived and it equals exp (recv_json:
\*     it parses as JSON and the value equals exp), otherwise
\*     Err(current TaskTest); the frame is consumed in every case.
\* ------------------------------------------------------------------------
C14_RecvThenCompare ==
  CallDone({"recv_str", "recv_json"}) =>
    /\ TookOneInOrder
    /\ hcall.op = "recv_str" =>
         (hcall.ret.st = "Ok" <=>
            TheItem.kind = "Text" /\ TheItem.text = hcall.exp)
    /\ hcall.op = "recv_json" =>
         (hcall.ret.st = "Ok" <=>
            /\ TheItem.kind = "Text"
            /\ from_str(TheItem.text).ok
            /\ from_str(TheItem.text).v = from_str(hcall.exp).v)
    /\ hcall.ret.st /= "Ok" => hcall.ret = ErrResult(hs.test)

C14_Witness ==
  /\ CallDone({"recv_json"})
  /\ hcall.ret.st = "Ok"
  /\ TheItem.text = Spaced(J1)
  /\ hcall.before = 1
  /\ hcall.all = << TextFrame(Plain("other")), TextFrame(Spaced(J1)) >>

\* ------------------------------------------------------------------------
\* C16 Absence-of-message assertion: the race of recv against a sleep
\*     passes iff the sleep branch completes, the timer having elapsed and
\*     recv not having completed; when recv completes with anything the
\*     script returns Err with its current test.
\* ------------------------------------------------------------------------
C16_SilenceRace ==
  CallDone({"race"}) =>
    /\ hcall.ret.st = "Ok" =>
         /\ hcall.timer
         /\ hcall.took = << >>
         /\ Len(hcall.all) = hcall.before
         /\ hcall.all \o hs.r \o feed = hcall.stream
    /\ hcall.ret.st /= "Ok" =>
         /\ hcall.avail
         /\ TookOneInOrder
         /\ hcall.ret = ErrResult(test)
    /\ ~hcall.avail => hcall.ret.st = "Ok"
    /\ ~hcall.timer => hcall.ret.st = "Err"

C16_Witness ==
  /\ CallDone({"race"})
  /\ hcall.ret = ErrResult(test)
  /\ hs.test /= test
  /\ TheItem.kind = "Close"
  /\ ~hcall.timer

\* ------------------------------------------------------------------------
\* C21 When the 60-second timeout fires, the losing script is abandoned:
\*     once the timer branch is selected no step of the script and no
\*     worker of its concurrent section sends, receives, requests or emits
\*     anything.
\* ------------------------------------------------------------------------
ScriptState ==
  << vpc, spc, test, result, io, wio, stepsRun, failedAt, tcTasks, joinq,
     joined >>
WorkerState == << wk, ws, wsUsers, doneOrder >>
OnlyTimerEmits == events' /= events => src'[Len(src')] = "timer"

C21_NothingAfterTimeout ==
  [][winner = "timer" =>
       /\ UNCHANGED ScriptState
       /\ UNCHANGED WorkerState
       /\ OnlyTimerEmits]_vars

\* C21 as amended: the script takes no step and emits nothing; a worker
\* does nothing but finish the poll that was in progress when the JoinSet
\* was dropped, and no poll of a worker begins
C21_AbandonedButPollInProgress ==
  [][winner = "timer" =>
       /\ UNCHANGED ScriptState
       /\ OnlyTimerEmits
       /\ \A i \in Workers : wk'[i] /= wk[i] => wk[i].run /\ ~wk'[i].run
       /\ \A h \in WsNames :
            (ws'[h] /= ws[h] \/ wsUsers'[h] /= wsUsers[h]) =>
              \E i \in Workers :
                h = UserName(i) /\ wk[i].run /\ ~wk'[i].run]_vars

C21_Witness ==
  /\ winner = "timer"
  /\ rpc = "returned"
  /\ \E i \in Workers : wk[i].pc = "send" /\ ~wk[i].run
  /\ \E j \in Workers :
       /\ wk[j].pc = "done"
       /\ \A k \in DOMAIN joinq : joinq[k] /= j
       /\ \A k \in DOMAIN joined : joined[k] /= j

\* ------------------------------------------------------------------------
\* C22 Broadcast isolation: the script passes only if no actor of one room
\*     is sent a message of the other room; a server that leaks a message
\*     across rooms makes the script return Err.
\* ------------------------------------------------------------------------
Passed == spc = Len(RoomScript) + 1
Stuck == RoomAt("Wj") /\ srv.inbox[RoomOp.h] = << >>

C22_LeakMakesErr == Passed => ~srv.leaked

\* ------------------------------------------------------------------------
\* C23 The broadcast test expects a tweet to be delivered to every member
\*     of the sender's room except the sender: a server that does not echo
\*     a tweet to its sender passes the script.
\* ------------------------------------------------------------------------
FirstRecv ==
  CHOOSE i \in DOMAIN RoomScript :
    /\ RoomScript[i].k = "Wj"
    /\ \A j \in 1..(i - 1) : RoomScript[j].k /= "Wj"

\* the claim as stated: with such a server the script is never left
\* waiting for a frame that was not sent
C23_NoEchoServerPasses == srv.mode = "noEcho" => ~Stuck

\* C23 as amended: the sender is among the receivers.  A server that does
\* not echo never gets the script past the first recv_json, on the
\* sender's own connection; a server that delivers every tweet to all
\* open connections of the room, the sender's included, and to no other
\* passes every step.
C23_EchoToSenderRequired ==
  /\ srv.mode = "noEcho" => spc <= FirstRecv /\ ~Passed
  /\ (srv.mode = "echo" /\ srv.faults = 0) => result.st /= "Err" /\ ~Stuck

C23_Witness ==
  /\ Passed
  /\ srv.mode = "echo"
  /\ srv.faults = 0
  /\ srv.views = 18

\* ------------------------------------------------------------------------
\* C24  Idempotent reset
\* ------------------------------------------------------------------------
\* what the script reads of the state a reset at operation r has left,
\* before it changes that state again: the board, the random sequence, or
\* nothing
NextChange(r) ==
  MinOf({j \in (r + 1)..Len(S24_12) :
           \/ S24_12[j].k = "Rs"
           \/ S24_12[j].k = "Pl" /\ S24_12[j].a = 200},
        Len(S24_12) + 1)
Observed(r) ==
  LET seen == {S24_12[j].k : j \in (r + 1)..(NextChange(r) - 1)}
  IN IF "Cb" \in seen THEN "board"
     ELSE IF "Cr" \in seen THEN "seed"
     ELSE "none"

BoardPassed == ver = "cch24" /\ spc = Len(S24_12) + 1
ViewsPassed == ver = "cch23" /\ spc = Len(RoomScript) + 1

\* the state a reset has left is read and compared with the baseline
Compared(a) ==
  \/ Observed(a.at) = "board" /\ a.board = 0
  \/ Observed(a.at) = "seed" /\ a.seed = 0

\* C24 as stated: in a script that passes, the state observed after every
\* reset was compared with the same baseline: the empty board or the first
\* random board in validate_12, a view count of 0 in validate_19.
C24_EveryResetCompared ==
  /\ BoardPassed => \A k \in DOMAIN srv.after : Compared(srv.after[k])
  /\ ViewsPassed => \A k \in DOMAIN srv.after : srv.after[k].board = 0

\* C24 amended: the same, except for the reset of test (2, 5) of
\* validate_12, of which only the status is checked and which is followed
\* by refused requests and by the next reset: whatever it leaves, the
\* script passes.
C24_EveryResetButOneCompared ==
  /\ BoardPassed =>
       \A k \in DOMAIN srv.after :
         \/ Compared(srv.after[k])
         \/ srv.after[k].test = <<2, 5>> /\ Observed(srv.after[k].at) = "none"
  /\ ViewsPassed => \A k \in DOMAIN srv.after : srv.after[k].board = 0

\* validate_12 has passed although the reset of test (2, 5) left the
\* finished game on the board
C24_Witness ==
  /\ BoardPassed
  /\ Len(srv.after) = 8
  /\ \E k \in DOMAIN srv.after :
       srv.after[k].test = <<2, 5>> /\ srv.after[k].board = 12

\* ------------------------------------------------------------------------
\* C25  The only SubmissionState values emitted by run, validate and the
\*      scripts are Running and Done, and within an invocation no Done is
\*      emitted before Running; Waiting and Error are never emitted.
\* ------------------------------------------------------------------------
IsState(e) == e.type = "State"

C25_OnlyRunningAndDone ==
  \A i \in Indices(IsState) :
    /\ events[i].state \in {"Running", "Done"}
    /\ events[i].state \in SubmissionState \ {"Waiting", "Error"}
    /\ events[i].state = "Done" =>
         \E j \in 1..(i - 1) : events[j] = StateEv("Running")

\* a run that has emitted Running and later, from the timer branch, Done
C25_Witness ==
  /\ rpc = "returned"
  /\ winner = "timer"
  /\ \E i, j \in Indices(IsState) :
       /\ i < j
       /\ events[i].state = "Running"
       /\ events[j].state = "Done"
       /\ src[j] = "timer"

\* ------------------------------------------------------------------------
\* C30  The events of one run never contain both a "Task X: test #N
\*      failed" LogLine and the "Timed out" LogLine, in any interleaving
\*      of the script branch and the timer.
\* ------------------------------------------------------------------------
FailedEmitted == Indices(IsFailedLine) /= {}

C30_FailedExcludesTimedOut == ~(FailedEmitted /\ TimedOutEmitted)

\* ------------------------------------------------------------------------
\* C28  In every script run that completes successfully exactly one
\*      TaskCompleted has is_final_task = true; every TaskCompleted at or
\*      before it has bonus_points = 0, and only tasks after the
\*      core-final task carry non-zero bonus points.
\* ------------------------------------------------------------------------
FinalTasks == {i \in Indices(IsTaskCompleted) : events[i].final}

\* every tx.send((is_final, bonus).into()) of every script, in source order
TaskCompletedSends ==
  [cch23 |->
     [validate_minus1 |-> << <<TRUE, 0>>, <<FALSE, 0>> >>,
      validate_1 |-> << <<TRUE, 0>>, <<FALSE, 100>> >>,
      validate_4 |-> << <<TRUE, 0>>, <<FALSE, 150>> >>,
      validate_5 |-> << <<TRUE, 0>>, <<FALSE, 150>> >>,
      validate_6 |-> << <<TRUE, 0>>, <<FALSE, 200>> >>,
      validate_7 |-> << <<TRUE, 0>>, <<FALSE, 120>>, <<FALSE, 100>> >>,
      validate_8 |-> << <<TRUE, 0>>, <<FALSE, 160>> >>,
      validate_11 |-> << <<TRUE, 0>>, <<FALSE, 200>> >>,
      validate_12 |-> << <<TRUE, 0>>, <<FALSE, 100>>, <<FALSE, 200>> >>,
      validate_13 |-> << <<FALSE, 0>>, <<TRUE, 0>>, <<FALSE, 100>> >>,
      validate_14 |-> << <<TRUE, 0>>, <<FALSE, 100>> >>,
      validate_15 |-> << <<TRUE, 0>>, <<FALSE, 400>> >>,
      validate_18 |-> << <<TRUE, 0>>, <<FALSE, 600>> >>,
      validate_19 |-> << <<TRUE, 0>>, <<FALSE, 500>> >>,
      validate_20 |-> << <<TRUE, 0>>, <<FALSE, 350>> >>,
      validate_21 |-> << <<TRUE, 0>>, <<FALSE, 300>> >>,
      validate_22 |-> << <<TRUE, 0>>, <<FALSE, 600>> >>],
   cch24 |->
     [validate_minus1 |-> << <<TRUE, 0>>, <<FALSE, 0>> >>,
      validate_2 |-> << <<FALSE, 0>>, <<TRUE, 0>>, <<FALSE, 50>> >>,
      validate_5 |->
        << <<FALSE, 0>>, <<FALSE, 0>>, <<TRUE, 0>>, <<FALSE, 70>> >>,
      validate_9 |->
        << <<FALSE, 0>>, <<FALSE, 0>>, <<TRUE, 0>>, <<FALSE, 75>> >>,
      validate_12 |-> << <<FALSE, 0>>, <<TRUE, 0>>, <<FALSE, 75>> >>,
      validate_16 |-> << <<TRUE, 0>>, <<FALSE, 200>> >>,
      validate_19 |-> << <<TRUE, 0>>, <<FALSE, 75>> >>,
      validate_23 |->
        << <<FALSE, 0>>, <<FALSE, 0>>, <<FALSE, 0>>, <<FALSE, 0>>,
           <<TRUE, 0>>, <<FALSE, 100>> >>]]

\* the sends of a script that has returned Ok(()) are those of its table
SendsOf(v, nm) == TaskCompletedSends[v][nm]
SentAll ==
  LET tc == SelectSeq(events, IsTaskCompleted)
      sends == SendsOf(ver, ScriptName(ver, number))
  IN /\ Len(tc) = Len(sends)
     /\ \A i \in DOMAIN tc : <<tc[i].final, tc[i].bonus>> = sends[i]

\* one final task, no bonus up to it
OneFinal(sends) ==
  /\ Cardinality({i \in DOMAIN sends : sends[i][1]}) = 1
  /\ \A i, f \in DOMAIN sends :
       sends[f][1] /\ i <= f => sends[i][2] = 0

\* C28: the tables do not depend on the state and are looked at where a run
\* starts
C28_OneFinalTaskThenBonus ==
  /\ events = << >> =>
       \A v \in DOMAIN TaskCompletedSends :
         \A nm \in DOMAIN TaskCompletedSends[v] :
           OneFinal(SendsOf(v, nm))
  /\ result.st = "Ok" => SentAll
  /\ Cardinality(FinalTasks) <= 1
  /\ result.st = "Ok" => Cardinality(FinalTasks) = 1
  /\ \A i \in Indices(IsTaskCompleted) :
       /\ (\E f \in FinalTasks : i <= f) => events[i].bonus = 0
       /\ events[i].bonus /= 0 => \E f \in FinalTasks : f < i

\* validate_2 has returned Ok(()): three tasks completed, the second one
\* final, the third with 50 bonus points
C28_Witness ==
  /\ ver = "cch24"
  /\ number = "2"
  /\ result.st = "Ok"
  /\ rpc = "returned"
  /\ LET tc == SelectSeq(events, IsTaskCompleted)
     IN /\ Len(tc) = 3
        /\ tc[2].final
        /\ tc[3].bonus = 50

\* ------------------------------------------------------------------------
\* C26  A send on the progress channel that fails because the receiver is
\*      closed is fatal: run aborts at that send, the failure is not
\*      turned into a TaskTest failure or a log line, and the run emits
\*      no later event.
\* ------------------------------------------------------------------------
SenderMoves ==
  rpc' /= rpc \/ vpc' /= vpc \/ spc' /= spc \/ result' /= result

C26_FailedSendIsFatal ==
  [][/\ ~rx.open =>
          /\ events' = events
          /\ rpc /= "returned" => rpc' /= "returned"
     /\ (~rx.open /\ RunAtSend /\ SenderMoves) =>
          rpc' = "panicked" /\ result' = result
     /\ (~rx.open /\ rpc = "select" /\ AtSend /\ SenderMoves) =>
          \/ rpc' = "panicked" /\ result' = result
          \/ winner' = "timer" /\ result' = result
     /\ rpc = "panicked" => UNCHANGED << rpc, vpc, spc, result, events >>]_vars

\* run has panicked at the send of a TaskCompleted after the receiver was
\* closed
C26_Witness ==
  /\ ~rx.open
  /\ rpc = "panicked"
  /\ spc <= Len(theScript)
  /\ theScript[spc].k = "Tc"
  /\ result = NoResult
  /\ DoneEmitted = FALSE

\* ------------------------------------------------------------------------
\* C29  The printer's counters track the stream: the number printed for
\*      the k-th TaskCompleted of a challenge is k, the challenges
\*      completed are the TaskCompleted events with is_final_task = true
\*      over all runs, the bonus total is the sum of the positive
\*      bonus_points, and the summary is printed only when more than one
\*      challenge was run.
\* ------------------------------------------------------------------------
RECURSIVE SumBonus(_)
SumBonus(q) ==
  IF q = << >> THEN 0
  ELSE (IF Head(q).type = "TaskCompleted" /\ Head(q).bonus > 0
        THEN Head(q).bonus ELSE 0) + SumBonus(Tail(q))

Received(P(_)) == {i \in DOMAIN rx.got : P(rx.got[i])}
\* the Running that opened the challenge event i belongs to
ChallengeStart(i) ==
  MinOf({j \in Received(IsRunning) :
           j <= i /\ \A x \in Received(IsRunning) : x <= i => x <= j}, 0)
KthOf(i) ==
  Cardinality({j \in Received(IsTaskCompleted) :
                 ChallengeStart(i) < j /\ j <= i})
IsFinalTask(e) == e.type = "TaskCompleted" /\ e.final

C29_PrinterCounters ==
  /\ \A i \in Received(IsTaskCompleted) :
       rx.out[i][1] = <<"task", KthOf(i)>>
  /\ rx.days_completed = Cardinality(Received(IsFinalTask))
  /\ rx.bonus = SumBonus(rx.got)
  /\ rx.summary /= << >> => Len(mn.nums) > 1
  /\ mn.pc = "exited" =>
       /\ Cardinality(Received(IsRunning)) = Len(mn.nums)
       /\ Len(mn.nums) > 1 =>
            rx.summary = << <<"summary", Cardinality(Received(IsFinalTask)),
                              SumBonus(rx.got)>> >>

\* two challenges were run and completed with their bonus tasks, and the
\* summary was printed
C29_Witness ==
  /\ mn.pc = "exited"
  /\ Len(mn.nums) = 2
  /\ rx.summary = << <<"summary", 2, 200>> >>
  /\ \E i \in Received(IsTaskCompleted) :
       /\ i > 4
       /\ rx.out[i] = << <<"task", 2>>, <<"bonus", 100>> >>

\* ------------------------------------------------------------------------
\* C27  The event stream of an invocation of main terminates: no send
\*      blocks forever, every sender is dropped once all runs have
\*      returned, the channel closes after the final StateChanged(Done)
\*      and its Save, and the printer task and main terminate.
\* ------------------------------------------------------------------------
MainExits == <>(mn.pc = "exited")

C27_ClosesAfterDoneAndSave ==
  (mn.pc = "await" /\ ~rx.open) => rx.last = << StateEv("Done"), SaveEv >>

\* ------------------------------------------------------------------------
\* C31  The latency warning of cch24 validate_9 is emitted as one LogLine
\*      iff the first five milk requests together took more than 500 ms,
\*      and emitting it changes nothing else: the script goes on with the
\*      same statement, the same test and the same result and
\*      TaskCompleted events as without the warning.
\* ------------------------------------------------------------------------
IsLatencyLine(e) == e = LogLineEv(LatencyText)
LatencyAt == CHOOSE i \in DOMAIN S24_9 : S24_9[i].k = "Lg"
InValidate9 == ver = "cch24" /\ number = "9"

C31_LatencyWarningOnly ==
  [][/\ Cardinality(Indices(IsLatencyLine)) <= 1
     /\ Indices(IsLatencyLine) /= {} =>
          InValidate9 /\ srv.took > 500 /\ spc > LatencyAt + 1
     /\ (InValidate9 /\ spc > LatencyAt + 1) =>
          (Indices(IsLatencyLine) /= {} <=> srv.took > 500)
     /\ (InValidate9 /\ spc = LatencyAt /\ spc' /= spc) =>
          /\ spc' = IF srv'.took > 500 THEN LatencyAt + 1 ELSE LatencyAt + 2
          /\ UNCHANGED << test, result, tcTasks, events, chan, stepsRun >>
     /\ (InValidate9 /\ spc = LatencyAt + 1 /\ spc' /= spc) =>
          /\ spc' = LatencyAt + 2
          /\ events' = Append(events, LogLineEv(LatencyText))
          /\ UNCHANGED << test, result, tcTasks, stepsRun, io, rpc, vpc,
                          winner, elapsed, srv >>]_vars

\* validate_9 has returned Ok after the warning: all four tasks completed
C31_Witness ==
  /\ InValidate9
  /\ srv.took = 501
  /\ result.st = "Ok"
  /\ Indices(IsLatencyLine) /= {}
  /\ Len(tcTasks) = 4

\* ------------------------------------------------------------------------
\* C32  The view counts validate_19 expects (0 after each reset, 1, 1
\*      after the over-long tweet, 12, 13, 18, and the number after the
\*      workers' phrases) are the counts of a reference server, one that
\*      adds for each accepted tweet the number of connections in the
\*      sender's room at that moment, the sender's own among them, and
\*      nothing for a rejected tweet.
\* ------------------------------------------------------------------------
\* every worker has sent each of its phrases
AllPhrasesSent == \A i \in Workers : wk[i].ii = NumPhrases

ReferenceServer ==
  srv.mode = "echo" /\ srv.faults = 0 /\ ~srv.leaked /\ ~srv.ignored

PastJoin == theDerived.join > 0 /\ spc > theDerived.join

C33_PastJoinAllOk ==
  PastJoin =>
    /\ joined = doneOrder
    /\ \A i \in Workers : wk[i].pc = "done" /\ wk[i].res = OkResult

\* ------------------------------------------------------------------------
\* C34  A frame that arrives on a harness after a silence window has
\*      expired is not lost: the cancelled recv of the race has taken
\*      nothing, and the next recv, recv_str or recv_json on the harness
\*      returns that frame, so a late reply is compared with the
\*      expectation of the later call.
\* ------------------------------------------------------------------------
Receives == {"recv", "recv_str", "recv_json"}

\* the call has taken an item that arrived after the last silence window
\* had expired
TookLate ==
  /\ CallDone(Receives)
  /\ hcall.quiet >= 0
  /\ hcall.before + 1 > hcall.quiet

LaterVerdict ==
  CASE hcall.op = "recv" -> WS_recv(TheItem, hs.test).st
    [] hcall.op = "recv_str" -> WS_recv_str(TheItem, hcall.exp, hs.test).st
    [] OTHER -> WS_recv_json(TheItem, from_str(hcall.exp).v, hs.test).st

C34_LateFrameNotLost ==
  /\ hcall.all \o hs.r \o feed = hcall.stream
  /\ hcall.quiet >= 0 => Len(hcall.all) + Len(hs.r) >= hcall.quiet
  /\ (CallDone(Receives) /\ hcall.quiet >= 0) =>
       /\ TookOneInOrder
       /\ hcall.ret.st = LaterVerdict

\* the reply "pong" arrives after the window and is taken by a recv_json
\* that expects a document
C34_Witness ==
  /\ TookLate
  /\ hcall.op = "recv_json"
  /\ hcall.quiet = 0
  /\ TheItem = TextFrame(Plain("pong"))
  /\ hcall.ret = ErrResult(hs.test)

\* ------------------------------------------------------------------------
\* validate's dispatch alone, for every identifier of a range around the
\* registered ones and, in cch24, for texts that only look like one
\* ------------------------------------------------------------------------
DispatchNumbers(v) ==
  IF v = "cch23" THEN (-3)..25
  ELSE {ToString(i) : i \in (-3)..25} \cup {"", "02", "+2", " 2", "2 "}

DispatchInit ==
  /\ ver \in Validators
  /\ number \in DispatchNumbers(ver)
  /\ rpc = "validate"
  /\ vpc = "start"
  /\ spc = 1
  /\ test = <<0, 0>>
  /\ result = NoResult
  /\ io = "none"
  /\ blocked = FALSE
  /\ yielded = FALSE
  /\ mustFire = FALSE
  /\ elapsed = FALSE
  /\ chan = << >>
  /\ events = << >>
  /\ src = << >>
  /\ winner = "none"
  /\ tcTasks = << >>
  /\ stepsRun = 0
  /\ failedAt = 0
  /\ lateSuspends = 0
  /\ lateAt = [vpc |-> "none", spc |-> 0, n |-> 0]
  /\ firedAt = -1
  /\ httpUrl = TRUE
  /\ ws = [h \in WsNames |-> NoHarness]
  /\ wio = "none"
  /\ wk = [i \in Workers |-> NoWorker]
  /\ joinq = << >>
  /\ joined = << >>
  /\ doneOrder = << >>
  /\ wsUsers = [h \in WsNames |-> {}]
  /\ hs = [test |-> <<0, 0>>, r |-> << >>]
  /\ feed = << >>
  /\ hcall = NoCall
  /\ srv = NoServer
  /\ rx = NoPrinter
  /\ mn = NoMain

DispatchSpec == DispatchInit /\ [][ValidateStart]_vars

\* ------------------------------------------------------------------------
\* C35  In both validators the identifiers of SUPPORTED_CHALLENGES are
\*      the identifiers with a script arm in validate: unreachable!() of
\*      cch23 is reached for no number, and every identifier registered
\*      in cch24 runs a script, not the not-supported branch.
\* ------------------------------------------------------------------------
C35_RegistryIsDispatch ==
  /\ SUPPORTED_CHALLENGES_23 = MatchArms_23
  /\ SUPPORTED_CHALLENGES_24 = MatchArms_24
  /\ vpc /= "unreachable"
  /\ vpc /= "start" => (vpc = "script" <=> Supported(ver, number))
  /\ vpc /= "start" => (vpc = "unsupLog" <=> ~Supported(ver, number))

\* "23" is registered in cch24 and reaches its script
C35_Witness ==
  /\ ver = "cch24"
  /\ number = "23"
  /\ vpc = "script"

\* ------------------------------------------------------------------------
\* C36  run of cch23 and run of cch24 are equivalent: the progress events
\*      of a finished run are one function of the script's outcome (Ok,
\*      Err((task, test)), timeout, unsupported identifier) and of the
\*      events the script sent, the same function in both validators.
\* ------------------------------------------------------------------------
EventsOf(who) ==
  LET F[i \in 0..Len(events)] ==
        IF i = 0 THEN << >>
        ELSE IF src[i] = who THEN Append(F[i - 1], events[i]) ELSE F[i - 1]
  IN F[Len(events)]

IsPrefix(a, b) == Len(a) <= Len(b) /\ a = SubSeq(b, 1, Len(a))

\* the identifier as it was given to run
Shown == IF ver = "cch23" THEN ToString(number) ELSE number

\* what validate sends after the script, by the outcome
ValidateTail ==
  CASE Dispatch(ver, number) = "unsupLog" ->
         << LogLineEv("Validating Challenge " \o Shown
                        \o " is not supported yet! Check for updates.") >>
    [] result.st = "Err" ->
         << LogLineEv(FailedText(result.tt)), StateEv("Done"), SaveEv >>
    [] OTHER -> << StateEv("Done"), SaveEv >>

C36_SameEventsForSameOutcome ==
  rpc = "returned" =>
    /\ events = << StateEv("Running"), SaveEv >> \o EventsOf("script")
                  \o EventsOf("validate") \o EventsOf("timer")
    /\ winner = "script" =>
         /\ EventsOf("validate") = ValidateTail
         /\ EventsOf("timer") = << >>
    /\ winner = "timer" =>
         /\ IsPrefix(EventsOf("validate"), ValidateTail)
         /\ EventsOf("timer") =
              << LogLineEv("Timed out"), StateEv("Done"), SaveEv >>

\* a run of cch24 that timed out after its script had reported a task
C36_Witness ==
  /\ ver = "cch24"
  /\ rpc = "returned"
  /\ winner = "timer"
  /\ EventsOf("script") /= << >>
  /\ Len(tcTasks) > 0

\* ------------------------------------------------------------------------
\* C37  When main validates several challenges the events of distinct
\*      runs do not interleave in the channel: an event is enqueued only
\*      by the run in progress, behind everything enqueued before, a run
\*      starts only after the one before it has returned, and neither the
\*      script nor validate of a run that timed out enqueues anything
\*      once the timer branch was taken.
\* ------------------------------------------------------------------------
Enqueues == events' /= events /\ events' /= << >>

C37_RunsDoNotInterleave ==
  [][/\ Enqueues =>
          /\ mn.pc = "run"
          /\ mn' = mn
          /\ rpc /= "returned"
          /\ events' = Append(events, events'[Len(events')])
          /\ chan' = Append(chan, events'[Len(events')])
          /\ src'[Len(src')] \in {"script", "validate"} =>
               winner /= "timer" /\ vpc \notin {"dropped", "returned"}
     /\ mn'.k /= mn.k =>
          /\ rpc = "returned"
          /\ mn'.k = mn.k + 1
          /\ events' = << >>
          /\ chan' = chan
     /\ rpc = "returned" => rpc' = "returned" \/ mn'.k = mn.k + 1]_vars

\* the second run has enqueued Running behind the Save of the first run,
\* which timed out
C37_Witness ==
  /\ mn.k = 2
  /\ events = << StateEv("Running") >>
  /\ chan = << SaveEv, StateEv("Running") >>
  /\ rx.last = << LogLineEv(TimedOutText), StateEv("Done") >>

====
